---- MODULE Spec2Model ----
(***************************************************************************)
(* Bounded circular buffers shared between a producer thread and a         *)
(* consumer thread, as implemented in the drawing-canvas audio programs    *)
(* (A9.c and its GTK4 revision) and in the video player (A7.c).            *)
(*                                                                         *)
(* The audio part models write_to_buffer / read_from_buffer, the decoder   *)
(* thread audio_thread_func, the playback thread and the UI commands       *)
(* play_audio / stop_audio / shutdown.  The two revisions of               *)
(* read_from_buffer differ in the wait on an empty buffer: A9.c waits      *)
(* with pthread_cond_wait, the GTK4 revision with a 5 ms                   *)
(* pthread_cond_timedwait and an extra test of is_audio_playing.  The      *)
(* variable timedWait selects the revision.                                *)
(*                                                                         *)
(* The video part models buffer_push / buffer_pop, decode_thread, the      *)
(* display_frame timer callback and on_app_shutdown.                       *)
(***************************************************************************)
EXTENDS Integers, Sequences, FiniteSets, TLC

\* ------------------------------------------------------------------------
\* Sizes.  The programs use 16384 / 32768 byte buffers and 4096 / 8192 byte
\* reads; the model scales them down.
\* ------------------------------------------------------------------------
BUFFER_SIZE == 4

\* size argument of the playback thread's read_from_buffer calls: a short
\* request, and one long enough for size / 10 to be a byte.
ReadSmall == 3

ReadLarge == 10

MEDIA_LEN == 5

MaxChunk == 3

SILENCE_DIVISOR == 10

\* Number of commands (button press / release, window close) the user issues.
MaxCommands == 3

\* Tones the user starts from the menu of the tone generator (A8.c)
MaxPlays == 3

\* The WASAPI feed of the drawing program: bytes of audio data, bytes per
\* frame, and frames the device asks for in one pass
MaxAudioData == 6

MaxBlockAlign == 2

MaxFramesToWrite == 4

\* UINT32 arithmetic, scaled: the values of an unsigned variable
UINT_SPAN == 256

\* The message queue's BUFFER_SIZE (10 messages), scaled down.
MSG_BUFFER_SIZE == 2

\* Number of MSG_START_AUDIO / MSG_STOP_AUDIO messages the user causes.
MaxSends == 3

\* The video player's BUFFER_SIZE (30 frames), scaled down.
FRAME_BUFFER_SIZE == 2

\* Frames the decoder delivers from packets, and at most from its flush.
MaxFrames == 3

MaxFlush == 1

\* Request sizes of the decoder's write_to_buffer calls; the last one is
\* larger than the buffer.
ChunkSizes == {1, MaxChunk, MEDIA_LEN}

\* Content of a destination byte that no memcpy / memset has written.
GARBAGE == 0 - 1

\* The k-th byte of the decoded media; all bytes differ and none is the
\* silence value 0, so any reordering, loss or duplication is visible.
Media(k) == k + 1

Min(a, b) == IF a < b THEN a ELSE b

\* A request whose tenth does not divide it: 2 * ReadLarge + 1 bytes, tenth 2.
OverrunRead == 2 * ReadLarge + 1

\* Room behind the caller's r_size bytes, so a write past the end of the
\* destination is a visible cell and not an evaluation error.
DestLen == OverrunRead + OverrunRead \div SILENCE_DIVISOR

VARIABLES
    timedWait,          \* TRUE: GTK4 revision (timed wait), FALSE: A9.c
    keep_running,       \* static volatile int keep_running
    is_audio_playing,   \* static volatile int is_audio_playing
    buffer,             \* CircularBuffer audio_buffer: data, read_pos, write_pos, size
    mutex,              \* audio_buffer.mutex: "free" or the thread that holds it
    ui_cmds,            \* number of UI commands issued so far
    pc,                 \* position of the threads U (GTK main), P (decoder), C (playback)
    media_pos,          \* read position of the decoder in the media
    w_base,             \* media position of the first byte of the chunk being written
    w_size,             \* size argument of the running write_to_buffer call
    bytes_written,      \* local of write_to_buffer
    r_size,             \* size argument of the read_from_buffer calls
    bytes_read,         \* local of read_from_buffer
    dest,               \* the caller's destination of read_from_buffer
    r_timedout,         \* pthread_cond_timedwait returned ETIMEDOUT
    fifo,               \* history: bytes written and not yet read, oldest first
    r_expect,           \* history: what the running read call took from fifo, and silence
    r_idle_call         \* history: the running read call began Idle and empty, and no play since

audio_vars == <<timedWait, keep_running, is_audio_playing, buffer, mutex, ui_cmds, pc,
                media_pos, w_base, w_size, bytes_written, r_size, bytes_read, dest,
                r_timedout, fifo, r_expect, r_idle_call>>

\* Groups used in UNCHANGED
w_locals == <<media_pos, w_base, w_size, bytes_written>>

r_locals == <<bytes_read, dest, r_timedout, r_expect, r_idle_call>>

\* Fixed after Init
config == <<timedWait, r_size>>

VARIABLES
    running,            \* int running (video player)
    frames,             \* CircularBuffer buffer of the video player: slots, read_pos, write_pos, count
    vmutex,             \* buffer.mutex of the video player: "free", "D" or "M"
    vpc,                \* position of the threads D (decode_thread) and M (GTK main)
    frame_no,           \* number of frames the decoder has produced
    flush_left,         \* frames the decoder may still deliver when flushed
    push_ret,           \* where the running buffer_push call returns to
    timer_on,           \* the display_frame timer is installed
    frame,              \* static FrameData frame of display_frame
    parkedAtShutdown,   \* history: decode_thread was parked on not_full when running was cleared
    pop_result,         \* what the last buffer_pop call returned (0 before the first)
    pushed,             \* history: the frames buffer_push has stored, in order
    popped              \* history: the frames buffer_pop has handed out, in order

video_hist == <<pop_result, pushed, popped>>

video_vars == <<running, frames, vmutex, vpc, frame_no, flush_left, push_ret, timer_on,
                frame, parkedAtShutdown, video_hist>>

VARIABLES
    stopped,            \* history: the last UI command was stop_audio
    s_received,         \* history: bytes the scenario consumer has received
    joins,              \* history: pthread_join calls made on audio_thread
    pcm_handle,         \* the output device handle: "open" or "NULL"
    play_phase          \* history: "start" / "restart" after a play_audio on an Idle
                        \* stream until the device gets media bytes ("flowed")

hist_vars == <<stopped, s_received, joins, pcm_handle, play_phase>>

VARIABLES
    message_buffer,     \* CircularBuffer of messages: buffer, read_pos, write_pos, count
    msg_mutex,          \* app->mutex: "free", "U" or "A"
    buffer_not_empty,   \* auto-reset event: TRUE when signalled
    buffer_not_full,    \* auto-reset event: TRUE when signalled
    audio_playing,      \* app->audio_playing
    audio_initialized,  \* app->audio_initialized
    thread_should_exit, \* app->thread_should_exit
    audio_api,          \* app->audio_api: "NONE", "WINMM" or "WASAPI"
    device,             \* the output device: "stopped" or "playing"
    wh_prepared,        \* app->wh.dwFlags & WHDR_PREPARED
    apc,                \* position of the threads U (GTK main) and A (audio_thread_func)
    msg,                \* Message msg of audio_thread_func
    send_type,          \* argument of the running send_message call
    send_ret,           \* where the running send_message call returns to
    sends,              \* number of mouse events handled so far
    start_failed,       \* history: number of start calls the device rejected
    start_attempts,     \* history: number of start calls made to the device
    q_sent,             \* history: the messages write_message has stored, in order
    q_received          \* history: the messages read_message has returned, in order

q_hist == <<q_sent, q_received>>

queue_vars == <<message_buffer, msg_mutex, buffer_not_empty, buffer_not_full,
                audio_playing, audio_initialized, thread_should_exit, audio_api,
                device, wh_prepared, apc, msg, send_type, send_ret, sends,
                start_failed, start_attempts, q_hist>>

\* The tone generator (A8.c)
VARIABLES
    isPlaying,          \* BOOL isPlaying
    hThread,            \* HANDLE hThread: 0 (NULL) or the id of the thread it names
    hEvent,             \* the buffer event: "unset", "set", or "NULL" once closed
    currentWaveform,    \* "SINE_WAVE" or "NOISE"
    thread,             \* state of each AudioThread ever created ("none": not yet)
    plays,              \* number of AudioThreads created so far
    choice,             \* main's local choice
    menu_running,       \* main's local running
    join_ret,           \* where main continues after the wait for the thread
    tpc                 \* position of main

tone_vars == <<isPlaying, hThread, hEvent, currentWaveform, thread, plays, choice,
               menu_running, join_ret, tpc>>

\* The WASAPI feed of audio_thread_func (part_006)
VARIABLES
    audio_data_size,    \* app->audio_data_size
    bytes_per_frame,    \* UINT32 bytes_per_frame
    current_position,   \* UINT32 current_position
    frames_to_write,    \* UINT32 frames_to_write of the latest pass
    feed_read_end,      \* end of the furthest range of audio_data the latest pass read
    feed_frames,        \* frames the latest pass copied to the device buffer
    fpc                 \* "feed" while the feed loop is under test, else "off"

feed_vars == <<audio_data_size, bytes_per_frame, current_position, frames_to_write,
               feed_read_end, feed_frames, fpc>>

\* What the actions of one program leave alone.
outside_audio == <<video_vars, queue_vars, tone_vars, feed_vars>>

outside_video == <<audio_vars, hist_vars, queue_vars, tone_vars, feed_vars>>

outside_queue == <<audio_vars, hist_vars, video_vars, tone_vars, feed_vars>>

outside_tone == <<audio_vars, hist_vars, video_vars, queue_vars, feed_vars>>

outside_feed == <<audio_vars, hist_vars, video_vars, queue_vars, tone_vars>>

vars == <<audio_vars, hist_vars, video_vars, queue_vars, tone_vars, feed_vars>>

\* ------------------------------------------------------------------------
\* memcpy / memset on arrays indexed from 0
\* ------------------------------------------------------------------------
Memcpy(dst, dpos, src, spos, n) ==
    [i \in DOMAIN dst |-> IF i >= dpos /\ i < dpos + n
                          THEN src[spos + (i - dpos)] ELSE dst[i]]

Memset(dst, dpos, val, n) ==
    [i \in DOMAIN dst |-> IF i >= dpos /\ i < dpos + n THEN val ELSE dst[i]]

\* The chunk handed to write_to_buffer: w_size bytes of media from w_base.
ChunkData == [i \in 0..(w_size - 1) |-> Media(w_base + i)]

ChunkSeq(from, n) == [i \in 1..n |-> Media(w_base + from + i - 1)]

Zeros(n) == [i \in 1..n |-> 0]

\* ------------------------------------------------------------------------
\* init_circular_buffer and the initial values of the globals
\* ------------------------------------------------------------------------
init_circular_buffer ==
    [data |-> [i \in 0..(BUFFER_SIZE - 1) |-> 0],
     read_pos |-> 0, write_pos |-> 0, size |-> 0]

AudioData ==
    /\ buffer = init_circular_buffer
    /\ mutex = "free"
    /\ media_pos = 0
    /\ w_base = 0
    /\ w_size = 0
    /\ bytes_written = 0
    /\ bytes_read = 0
    /\ dest = [i \in 0..(DestLen - 1) |-> GARBAGE]
    /\ r_timedout = FALSE
    /\ fifo = <<>>
    /\ r_expect = <<>>
    /\ r_idle_call = FALSE

AudioLocals == AudioData /\ pc = [U |-> "u_run", P |-> "p_loop", C |-> "c_loop"]

\* Mutant of Signal_not_empty: the signal is not sent.
Signal_not_empty_lost(p) == p

\* pthread_cond_signal: wakes the thread parked on the condition, if any.
\* not_empty has one possible waiter (C), not_full has one (P).
Signal_not_empty(p) == IF p.C = "r_wait" THEN [p EXCEPT !.C = "r_wake"] ELSE p

\* Mutant of Signal_not_full: the signal is not sent.
Signal_not_full_lost(p) == p

Signal_not_full(p) == IF p.P = "w_wait" THEN [p EXCEPT !.P = "w_wake"] ELSE p

\* ------------------------------------------------------------------------
\* UI thread: play_audio, stop_audio, and the shutdown path
\* ------------------------------------------------------------------------
play_audio ==
    /\ pc.U = "u_run"
    /\ ui_cmds < MaxCommands
    /\ ui_cmds' = ui_cmds + 1
    /\ is_audio_playing' = 1
    /\ r_idle_call' = FALSE
    /\ UNCHANGED <<config, keep_running, buffer, mutex, pc, w_locals,
                   bytes_read, dest, r_timedout, r_expect, fifo>>
    /\ stopped' = FALSE
    /\ play_phase' = IF is_audio_playing = 1 THEN play_phase
                     ELSE IF stopped THEN "restart" ELSE "start"
    /\ UNCHANGED <<outside_audio, s_received, joins, pcm_handle>>

stop_audio ==
    /\ pc.U = "u_run"
    /\ ui_cmds < MaxCommands
    /\ ui_cmds' = ui_cmds + 1
    /\ is_audio_playing' = 0
    /\ UNCHANGED <<config, keep_running, buffer, mutex, pc, w_locals, r_locals, fifo>>
    /\ stopped' = TRUE
    /\ play_phase' = "idle"
    /\ UNCHANGED <<outside_audio, s_received, joins, pcm_handle>>

\* keep_running = 0;
shutdown_request ==
    /\ pc.U = "u_run"
    /\ ui_cmds < MaxCommands
    /\ ui_cmds' = ui_cmds + 1
    /\ keep_running' = 0
    /\ pc' = [pc EXCEPT !.U = "u_join"]
    /\ UNCHANGED <<config, is_audio_playing, buffer, mutex, w_locals, r_locals, fifo>>
    /\ UNCHANGED <<outside_audio, hist_vars>>

\* pthread_join(audio_thread, NULL); cleanup_audio_system();
shutdown_join ==
    /\ pc.U = "u_join"
    /\ pc.P = "p_done"
    /\ joins' = joins + 1
    /\ pcm_handle' = "NULL"
    /\ pc' = [pc EXCEPT !.U = "u_done"]
    /\ UNCHANGED <<ui_cmds, config, keep_running, is_audio_playing, buffer, mutex,
                   w_locals, r_locals, fifo>>
    /\ UNCHANGED <<outside_audio, stopped, s_received, play_phase>>

\* The shutdown handler run again: keep_running = 0; pthread_join(audio_thread,
\* NULL) on the thread that was joined already, which is undefined: the call
\* returns or never does; cleanup_audio_system() finds pcm_handle NULL.
shutdown_again ==
    /\ pc.U = "u_done"
    /\ keep_running' = 0
    /\ joins' = joins + 1
    /\ \E returns \in BOOLEAN :
           pc' = [pc EXCEPT !.U = IF returns THEN "u_done2" ELSE "u_hung"]
    /\ UNCHANGED <<ui_cmds, config, is_audio_playing, buffer, mutex, w_locals,
                   r_locals, fifo>>
    /\ UNCHANGED <<outside_audio, stopped, s_received, pcm_handle, play_phase>>

\* ------------------------------------------------------------------------
\* write_to_buffer
\* ------------------------------------------------------------------------
\* Mutant of to_write: the request is not clamped to the free space.
to_write_unclamped(size, written, available) == size - written

\* size_t to_write = (size - bytes_written) < available ? (size - bytes_written) : available;
to_write(size, written, available) == Min(size - written, available)

\* Mutant of write_copy: one memcpy, the part behind the end of the backing
\* array is lost.
write_copy_nowrap(b, src, spos, n) ==
    [b EXCEPT !.data = Memcpy(b.data, b.write_pos, src, spos, n),
              !.write_pos = (b.write_pos + n) % BUFFER_SIZE,
              !.size = b.size + n]

\* Mutant of write_segments: one memcpy for the whole run.
write_segments_single(b, n) == <<[pos |-> b.write_pos, len |-> n]>>

\* The ranges [pos, pos + len) of the backing array that the memcpy calls of
\* one write step cover: one if to_write <= first_chunk, else two.
write_segments(b, n) ==
    LET first_chunk == BUFFER_SIZE - b.write_pos
    IN  IF n <= first_chunk
        THEN <<[pos |-> b.write_pos, len |-> n]>>
        ELSE <<[pos |-> b.write_pos, len |-> first_chunk],
               [pos |-> 0, len |-> n - first_chunk]>>

\* The memcpy calls of one write step and the new write_pos and size.
write_copy(b, src, spos, n) ==
    LET first_chunk == BUFFER_SIZE - b.write_pos
        segs == write_segments(b, n)
        one == Memcpy(b.data, segs[1].pos, src, spos, segs[1].len)
    IN  [b EXCEPT !.data = IF Len(segs) = 1 THEN one
                           ELSE Memcpy(one, segs[2].pos, src, spos + segs[1].len,
                                       segs[2].len),
                  !.write_pos = IF n <= first_chunk
                                THEN (b.write_pos + n) % BUFFER_SIZE
                                ELSE n - first_chunk,
                  !.size = b.size + n]

\* pthread_mutex_lock(&buffer->mutex); bytes_written = 0
write_to_buffer_lock ==
    /\ pc.P = "w_lock"
    /\ mutex = "free"
    /\ mutex' = "P"
    /\ bytes_written' = 0
    /\ pc' = [pc EXCEPT !.P = "w_test"]
    /\ UNCHANGED <<ui_cmds, config, keep_running, is_audio_playing, buffer, media_pos,
                   w_base, w_size, r_locals, fifo>>
    /\ UNCHANGED <<outside_audio, hist_vars>>

\* Mutant of write_to_buffer_test: the loop also ends when the buffer is full.
write_to_buffer_test_full ==
    /\ pc.P = "w_test"
    /\ pc' = [pc EXCEPT !.P = IF /\ bytes_written < w_size
                                 /\ keep_running = 1
                                 /\ buffer.size < BUFFER_SIZE
                              THEN "w_body" ELSE "w_unlock"]
    /\ UNCHANGED <<ui_cmds, config, keep_running, is_audio_playing, buffer, mutex,
                   w_locals, r_locals, fifo>>
    /\ UNCHANGED <<outside_audio, hist_vars>>

\* while (bytes_written < size && keep_running)
write_to_buffer_test ==
    /\ pc.P = "w_test"
    /\ pc' = [pc EXCEPT !.P = IF bytes_written < w_size /\ keep_running = 1
                              THEN "w_body" ELSE "w_unlock"]
    /\ UNCHANGED <<ui_cmds, config, keep_running, is_audio_playing, buffer, mutex,
                   w_locals, r_locals, fifo>>
    /\ UNCHANGED <<outside_audio, hist_vars>>

\* Mutant of write_to_buffer_body: a full buffer ends the call instead of
\* waiting on not_full.
write_to_buffer_body_nowait ==
    /\ pc.P = "w_body"
    /\ LET available == BUFFER_SIZE - buffer.size
           n == to_write(w_size, bytes_written, available)
       IN  IF available = 0
           THEN /\ pc' = [pc EXCEPT !.P = "w_unlock"]
                /\ UNCHANGED <<buffer, bytes_written, fifo, mutex>>
           ELSE /\ buffer' = write_copy(buffer, ChunkData, bytes_written, n)
                /\ bytes_written' = bytes_written + n
                /\ fifo' = fifo \o ChunkSeq(bytes_written, n)
                /\ pc' = [Signal_not_empty(pc) EXCEPT !.P = "w_test"]
                /\ UNCHANGED mutex
    /\ UNCHANGED <<ui_cmds, config, keep_running, is_audio_playing, media_pos, w_base,
                   w_size, r_locals>>
    /\ UNCHANGED <<outside_audio, hist_vars>>

\* The loop body: wait on not_full when no space, else copy and signal.
write_to_buffer_body ==
    /\ pc.P = "w_body"
    /\ LET available == BUFFER_SIZE - buffer.size
           n == to_write(w_size, bytes_written, available)
       IN  IF available = 0
           THEN /\ mutex' = "free"
                /\ pc' = [pc EXCEPT !.P = "w_wait"]
                /\ UNCHANGED <<buffer, bytes_written, fifo>>
           ELSE /\ buffer' = write_copy(buffer, ChunkData, bytes_written, n)
                /\ bytes_written' = bytes_written + n
                /\ fifo' = fifo \o ChunkSeq(bytes_written, n)
                /\ pc' = [Signal_not_empty(pc) EXCEPT !.P = "w_test"]
                /\ UNCHANGED mutex
    /\ UNCHANGED <<ui_cmds, config, keep_running, is_audio_playing, media_pos, w_base,
                   w_size, r_locals>>
    /\ UNCHANGED <<outside_audio, hist_vars>>

\* pthread_cond_wait returns after re-acquiring the mutex; continue
write_to_buffer_wake ==
    /\ pc.P = "w_wake"
    /\ mutex = "free"
    /\ mutex' = "P"
    /\ pc' = [pc EXCEPT !.P = "w_test"]
    /\ UNCHANGED <<ui_cmds, config, keep_running, is_audio_playing, buffer, w_locals,
                   r_locals, fifo>>
    /\ UNCHANGED <<outside_audio, hist_vars>>

\* pthread_mutex_unlock(&buffer->mutex); return bytes_written;
\* back in audio_thread_func: free(resampled_data), next av_read_frame
write_to_buffer_unlock ==
    /\ pc.P = "w_unlock"
    /\ mutex' = "free"
    /\ w_base' = 0
    /\ w_size' = 0
    /\ bytes_written' = 0
    /\ pc' = [pc EXCEPT !.P = "p_read"]
    /\ UNCHANGED <<ui_cmds, config, keep_running, is_audio_playing, buffer, media_pos,
                   r_locals, fifo>>
    /\ UNCHANGED <<outside_audio, hist_vars>>

\* ------------------------------------------------------------------------
\* audio_thread_func: the decoder thread
\* ------------------------------------------------------------------------
\* while (keep_running)
audio_thread_loop ==
    /\ pc.P = "p_loop"
    /\ pc' = [pc EXCEPT !.P = IF keep_running = 1 THEN "p_check" ELSE "p_done"]
    /\ UNCHANGED <<ui_cmds, config, keep_running, is_audio_playing, buffer, mutex,
                   w_locals, r_locals, fifo>>
    /\ UNCHANGED <<outside_audio, hist_vars>>

\* if (is_audio_playing) { avformat_seek_file(.. 0 ..) ... } else usleep(10000)
audio_thread_check ==
    /\ pc.P = "p_check"
    /\ IF is_audio_playing = 1
       THEN /\ media_pos' = 0
            /\ pc' = [pc EXCEPT !.P = "p_read"]
       ELSE /\ pc' = [pc EXCEPT !.P = "p_loop"]
            /\ UNCHANGED media_pos
    /\ UNCHANGED <<ui_cmds, config, keep_running, is_audio_playing, buffer, mutex,
                   w_base, w_size, bytes_written, r_locals, fifo>>
    /\ UNCHANGED <<outside_audio, hist_vars>>

\* while (is_audio_playing && keep_running && av_read_frame(format_ctx, packet) >= 0)
\* A packet decodes to one chunk of n bytes; the media ends after MEDIA_LEN bytes.
audio_thread_read ==
    /\ pc.P = "p_read"
    /\ IF is_audio_playing = 1 /\ keep_running = 1 /\ media_pos < MEDIA_LEN
       THEN \E c \in ChunkSizes :
              LET n == Min(c, MEDIA_LEN - media_pos)
              IN  /\ w_base' = media_pos
                  /\ w_size' = n
                  /\ media_pos' = media_pos + n
                  /\ pc' = [pc EXCEPT !.P = "p_recv"]
       ELSE /\ pc' = [pc EXCEPT !.P = "p_after"]
            /\ UNCHANGED <<media_pos, w_base, w_size>>
    /\ UNCHANGED <<ui_cmds, config, keep_running, is_audio_playing, buffer, mutex,
                   bytes_written, r_locals, fifo>>
    /\ UNCHANGED <<outside_audio, hist_vars>>

\* while (ret >= 0 && is_audio_playing) { receive, resample, write_to_buffer(...) }
audio_thread_recv ==
    /\ pc.P = "p_recv"
    /\ IF is_audio_playing = 1
       THEN /\ pc' = [pc EXCEPT !.P = "w_lock"]
            /\ UNCHANGED <<w_base, w_size>>
       ELSE /\ pc' = [pc EXCEPT !.P = "p_read"]
            /\ w_base' = 0
            /\ w_size' = 0
    /\ UNCHANGED <<ui_cmds, config, keep_running, is_audio_playing, buffer, mutex,
                   media_pos, bytes_written, r_locals, fifo>>
    /\ UNCHANGED <<outside_audio, hist_vars>>

\* if (!keep_running || !is_audio_playing) continue;
audio_thread_after ==
    /\ pc.P = "p_after"
    /\ pc' = [pc EXCEPT !.P = IF keep_running = 0 \/ is_audio_playing = 0
                              THEN "p_loop" ELSE "p_eof"]
    /\ UNCHANGED <<ui_cmds, config, keep_running, is_audio_playing, buffer, mutex,
                   w_locals, r_locals, fifo>>
    /\ UNCHANGED <<outside_audio, hist_vars>>

\* The end-of-media step without the seek back to the start.
audio_thread_eof_noseek ==
    /\ pc.P = "p_eof"
    /\ is_audio_playing' = 0
    /\ pc' = [pc EXCEPT !.P = "p_loop"]
    /\ UNCHANGED <<ui_cmds, config, keep_running, buffer, mutex, w_locals,
                   r_locals, fifo>>
    /\ UNCHANGED <<outside_audio, hist_vars>>

\* is_audio_playing = 0; avformat_seek_file(.. 0 ..);
audio_thread_eof ==
    /\ pc.P = "p_eof"
    /\ is_audio_playing' = 0
    /\ media_pos' = 0
    /\ pc' = [pc EXCEPT !.P = "p_loop"]
    /\ UNCHANGED <<ui_cmds, config, keep_running, buffer, mutex, w_base, w_size,
                   bytes_written, r_locals, fifo>>
    /\ UNCHANGED <<outside_audio, hist_vars>>

\* ------------------------------------------------------------------------
\* read_from_buffer
\* ------------------------------------------------------------------------
\* size_t to_read = (size - bytes_read) < buffer->size ? (size - bytes_read) : buffer->size;
to_read(size, nread, filled) == Min(size - nread, filled)

\* The ranges of the backing array that the memcpy calls of one read step
\* cover: one if to_read <= first_chunk, else two.
read_segments(b, n) ==
    LET first_chunk == BUFFER_SIZE - b.read_pos
    IN  IF n <= first_chunk
        THEN <<[pos |-> b.read_pos, len |-> n]>>
        ELSE <<[pos |-> b.read_pos, len |-> first_chunk],
               [pos |-> 0, len |-> n - first_chunk]>>

\* The memcpy calls of one read step into data + bytes_read.
read_copy_dest(b, d, dpos, n) ==
    LET segs == read_segments(b, n)
        one == Memcpy(d, dpos, b.data, segs[1].pos, segs[1].len)
    IN  IF Len(segs) = 1 THEN one
        ELSE Memcpy(one, dpos + segs[1].len, b.data, segs[2].pos, segs[2].len)

\* Mutant of read_advance: read_pos is advanced without the modulo.
read_advance_nomod(b, n) == [b EXCEPT !.read_pos = b.read_pos + n, !.size = b.size - n]

\* The new read_pos and size.
read_advance(b, n) ==
    LET first_chunk == BUFFER_SIZE - b.read_pos
    IN  IF n <= first_chunk
        THEN [b EXCEPT !.read_pos = (b.read_pos + n) % BUFFER_SIZE, !.size = b.size - n]
        ELSE [b EXCEPT !.read_pos = n - first_chunk, !.size = b.size - n]

\* Mutant of silence_on_empty: an empty buffer is always answered with silence.
silence_on_empty_always == TRUE

\* if (!keep_running) in A9.c, if (!keep_running || !is_audio_playing) in the GTK4 revision
silence_on_empty == keep_running = 0 \/ (timedWait /\ is_audio_playing = 0)

\* Mutant of silence_size: a fifth of the request.
silence_size_fifth(size) == size \div 5

\* size_t silence_size = size / 10;
silence_size(size) == size \div SILENCE_DIVISOR

\* pthread_mutex_lock(&buffer->mutex); bytes_read = 0
read_from_buffer_lock ==
    /\ pc.C = "r_lock"
    /\ mutex = "free"
    /\ mutex' = "C"
    /\ bytes_read' = 0
    /\ r_expect' = <<>>
    /\ r_idle_call' = (is_audio_playing = 0 /\ buffer.size = 0)
    /\ pc' = [pc EXCEPT !.C = "r_test"]
    /\ UNCHANGED <<ui_cmds, config, keep_running, is_audio_playing, buffer, w_locals,
                   dest, r_timedout, fifo>>
    /\ UNCHANGED <<outside_audio, hist_vars>>

\* while (bytes_read < size && keep_running)
read_from_buffer_test ==
    /\ pc.C = "r_test"
    /\ pc' = [pc EXCEPT !.C = IF bytes_read < r_size /\ keep_running = 1
                              THEN "r_body" ELSE "r_unlock"]
    /\ UNCHANGED <<ui_cmds, config, keep_running, is_audio_playing, buffer, mutex,
                   w_locals, r_locals, fifo>>
    /\ UNCHANGED <<outside_audio, hist_vars>>

\* The loop body: on an empty buffer fill silence and break, or wait on
\* not_empty; else copy out and signal not_full.
read_from_buffer_body ==
    /\ pc.C = "r_body"
    /\ IF buffer.size = 0
       THEN IF silence_on_empty
            THEN /\ dest' = Memset(dest, bytes_read, 0, r_size - bytes_read)
                 /\ bytes_read' = r_size
                 /\ r_expect' = r_expect \o Zeros(r_size - bytes_read)
                 /\ pc' = [pc EXCEPT !.C = "r_unlock"]
                 /\ UNCHANGED <<buffer, mutex, fifo>>
            ELSE /\ mutex' = "free"
                 /\ pc' = [pc EXCEPT !.C = "r_wait"]
                 /\ UNCHANGED <<buffer, bytes_read, dest, r_expect, fifo>>
       ELSE LET n == to_read(r_size, bytes_read, buffer.size)
            IN  /\ dest' = read_copy_dest(buffer, dest, bytes_read, n)
                /\ buffer' = read_advance(buffer, n)
                /\ bytes_read' = bytes_read + n
                /\ r_expect' = r_expect \o SubSeq(fifo, 1, n)
                /\ fifo' = SubSeq(fifo, n + 1, Len(fifo))
                /\ pc' = [Signal_not_full(pc) EXCEPT !.C = "r_test"]
                /\ UNCHANGED mutex
    /\ UNCHANGED <<ui_cmds, config, keep_running, is_audio_playing, w_locals,
                   r_timedout, r_idle_call>>
    /\ UNCHANGED <<outside_audio, hist_vars>>

\* pthread_cond_timedwait returns ETIMEDOUT after 5 ms without a signal
\* (GTK4 revision only; A9.c uses pthread_cond_wait)
read_from_buffer_timeout ==
    /\ timedWait
    /\ pc.C = "r_wait"
    /\ r_timedout' = TRUE
    /\ pc' = [pc EXCEPT !.C = "r_wake"]
    /\ UNCHANGED <<ui_cmds, config, keep_running, is_audio_playing, buffer, mutex,
                   w_locals, bytes_read, dest, r_expect, r_idle_call, fifo>>
    /\ UNCHANGED <<outside_audio, hist_vars>>

\* The wait returns with the mutex re-acquired; on ETIMEDOUT
\* memset(data + bytes_read, 0, silence_size); bytes_read += silence_size; continue
read_from_buffer_wake ==
    /\ pc.C = "r_wake"
    /\ mutex = "free"
    /\ mutex' = "C"
    /\ IF r_timedout /\ silence_size(r_size) > 0
       THEN /\ dest' = Memset(dest, bytes_read, 0, silence_size(r_size))
            /\ bytes_read' = bytes_read + silence_size(r_size)
            /\ r_expect' = r_expect \o Zeros(silence_size(r_size))
       ELSE UNCHANGED <<dest, bytes_read, r_expect>>
    /\ r_timedout' = FALSE
    /\ pc' = [pc EXCEPT !.C = "r_test"]
    /\ UNCHANGED <<ui_cmds, config, keep_running, is_audio_playing, buffer, w_locals,
                   r_idle_call, fifo>>
    /\ UNCHANGED <<outside_audio, hist_vars>>

\* pthread_mutex_unlock(&buffer->mutex); return bytes_read;
read_from_buffer_unlock ==
    /\ pc.C = "r_unlock"
    /\ mutex' = "free"
    /\ pc' = [pc EXCEPT !.C = "c_deliver"]
    /\ UNCHANGED <<ui_cmds, config, keep_running, is_audio_playing, buffer, w_locals,
                   r_locals, fifo>>
    /\ UNCHANGED <<outside_audio, hist_vars>>

\* ------------------------------------------------------------------------
\* alsa_playback_thread / winmm_playback_thread
\* ------------------------------------------------------------------------
\* while (keep_running)
playback_thread_loop ==
    /\ pc.C = "c_loop"
    /\ pc' = [pc EXCEPT !.C = IF keep_running = 1 THEN "c_check" ELSE "c_done"]
    /\ UNCHANGED <<ui_cmds, config, keep_running, is_audio_playing, buffer, mutex,
                   w_locals, r_locals, fifo>>
    /\ UNCHANGED <<outside_audio, hist_vars>>

\* if (is_audio_playing) read_from_buffer(...) else usleep(10000)
playback_thread_check ==
    /\ pc.C = "c_check"
    /\ pc' = [pc EXCEPT !.C = IF is_audio_playing = 1 THEN "r_lock" ELSE "c_loop"]
    /\ UNCHANGED <<ui_cmds, config, keep_running, is_audio_playing, buffer, mutex,
                   w_locals, r_locals, fifo>>
    /\ UNCHANGED <<outside_audio, hist_vars>>

\* The bytes read go to the device (snd_pcm_writei / waveOutWrite); the
\* scratch buffer is dead until the next read_from_buffer call.
playback_thread_deliver ==
    /\ pc.C = "c_deliver"
    /\ bytes_read' = 0
    /\ dest' = [i \in 0..(DestLen - 1) |-> GARBAGE]
    /\ r_expect' = <<>>
    /\ r_idle_call' = FALSE
    /\ pc' = [pc EXCEPT !.C = "c_loop"]
    /\ UNCHANGED <<ui_cmds, config, keep_running, is_audio_playing, buffer, mutex,
                   w_locals, r_timedout, fifo>>
    /\ play_phase' = IF /\ play_phase \in {"start", "restart"}
                        /\ \E i \in 0..(bytes_read - 1) : dest[i] > 0
                     THEN "flowed" ELSE play_phase
    /\ UNCHANGED <<outside_audio, stopped, s_received, joins, pcm_handle>>

\* ------------------------------------------------------------------------
\* Spurious wake-ups, which POSIX allows for both waits
\* ------------------------------------------------------------------------
spurious_wakeup ==
    /\ \/ pc.P = "w_wait" /\ pc' = [pc EXCEPT !.P = "w_wake"]
       \/ pc.C = "r_wait" /\ pc' = [pc EXCEPT !.C = "r_wake"]
    /\ UNCHANGED <<ui_cmds, config, keep_running, is_audio_playing, buffer, mutex,
                   w_locals, r_locals, fifo>>
    /\ UNCHANGED <<outside_audio, hist_vars>>

\* ------------------------------------------------------------------------
\* The message-queue program (WAV player with WinMM / WASAPI output)
\* ------------------------------------------------------------------------
\* The null pointer create_circular_buffer returns when a malloc fails.
NULL == [null |-> TRUE]

\* create_circular_buffer(size) when both allocations succeed.
create_circular_buffer(size) ==
    [buffer |-> [i \in 0..(size - 1) |-> "none"],
     size |-> size, read_pos |-> 0, write_pos |-> 0, count |-> 0]

\* main: the application state before the audio thread is created, the
\* message buffer apart.
QueueFlags ==
    /\ msg_mutex = "free"
    /\ buffer_not_empty = FALSE
    /\ buffer_not_full = TRUE
    /\ audio_playing = FALSE
    /\ audio_initialized = FALSE
    /\ thread_should_exit = FALSE
    /\ audio_api = "NONE"
    /\ device = "stopped"
    /\ wh_prepared = FALSE
    /\ msg = "none"
    /\ send_type = "none"
    /\ send_ret = "u_idle"
    /\ sends = 0
    /\ start_failed = 0
    /\ start_attempts = 0
    /\ q_sent = <<>>
    /\ q_received = <<>>

\* main: message_buffer = create_circular_buffer(BUFFER_SIZE)
QueueLocals == message_buffer = create_circular_buffer(MSG_BUFFER_SIZE) /\ QueueFlags

\* The program is not running.
QueueOff == QueueLocals /\ apc = [U |-> "off", A |-> "off"]

\* The feed loop is not under test.
FeedOff ==
    /\ audio_data_size = 1
    /\ bytes_per_frame = 1
    /\ current_position = 0
    /\ frames_to_write = 0
    /\ feed_read_end = 0
    /\ feed_frames = 0
    /\ fpc = "off"

\* The globals of A8.c as initialised at 42-53, main's locals at 419-423.
ToneLocals ==
    /\ isPlaying = FALSE
    /\ hThread = 0
    /\ hEvent = "unset"
    /\ currentWaveform = "SINE_WAVE"
    /\ thread = [id \in 1..MaxPlays |-> "none"]
    /\ plays = 0
    /\ choice = 0
    /\ menu_running = TRUE
    /\ join_ret = "menu"

\* The tone generator is not running.
ToneOff == ToneLocals /\ tpc = "off"

HistInit ==
    /\ stopped = FALSE
    /\ s_received = 0
    /\ joins = 0
    /\ pcm_handle = "open"
    /\ play_phase = "idle"

\* ------------------------------------------------------------------------
\* The drawing program (part_006): message queue between the GTK thread and
\* the audio thread
\* ------------------------------------------------------------------------
q_sync == <<message_buffer, msg_mutex, buffer_not_empty, buffer_not_full>>

q_dev == <<audio_playing, device, wh_prepared, start_failed, start_attempts>>

q_flags == <<audio_initialized, thread_should_exit, audio_api>>

q_ui == <<send_type, send_ret, sends>>

\* main: both threads exist, the audio thread has not initialised yet.
QueueInit == QueueLocals /\ apc = [U |-> "u_idle", A |-> "a_init"]

\* buffer->buffer[write_pos] = msg; write_pos = (write_pos + 1) % size; count++
write_message_store(b, t) ==
    [b EXCEPT !.buffer[b.write_pos] = t,
              !.write_pos = (b.write_pos + 1) % b.size,
              !.count = b.count + 1]

\* Mutant of read_message_take: read_pos stays where it is.
read_message_take_stuck(b) ==
    [b EXCEPT !.count = b.count - 1]

\* read_pos = (read_pos + 1) % size; count--
read_message_take(b) ==
    [b EXCEPT !.read_pos = (b.read_pos + 1) % b.size,
              !.count = b.count - 1]

\* if (app->audio_initialized) send_message(app, MSG_START_AUDIO); the callback
\* goes on when write_message has returned.
pressed_cb ==
    /\ apc.U = "u_idle"
    /\ sends < MaxSends
    /\ IF audio_initialized
       THEN /\ send_type' = "START"
            /\ send_ret' = "u_idle"
            /\ apc' = [apc EXCEPT !.U = "wm_lock"]
       ELSE UNCHANGED <<send_type, send_ret, apc>>
    /\ sends' = sends + 1
    /\ UNCHANGED <<q_sync, q_dev, q_flags, msg>>
    /\ UNCHANGED <<outside_queue, q_hist>>

\* if (app->audio_initialized) send_message(app, MSG_STOP_AUDIO);
released_cb ==
    /\ apc.U = "u_idle"
    /\ sends < MaxSends
    /\ IF audio_initialized
       THEN /\ send_type' = "STOP"
            /\ send_ret' = "u_idle"
            /\ apc' = [apc EXCEPT !.U = "wm_lock"]
       ELSE UNCHANGED <<send_type, send_ret, apc>>
    /\ sends' = sends + 1
    /\ UNCHANGED <<q_sync, q_dev, q_flags, msg>>
    /\ UNCHANGED <<outside_queue, q_hist>>

\* cleanup_app: thread_should_exit = TRUE; send_message(app, MSG_EXIT);
cleanup_app ==
    /\ apc.U = "u_idle"
    /\ thread_should_exit' = TRUE
    /\ send_type' = "EXIT"
    /\ send_ret' = "cl_wait"
    /\ apc' = [apc EXCEPT !.U = "wm_lock"]
    /\ UNCHANGED <<q_sync, q_dev, audio_initialized, audio_api, msg, sends>>
    /\ UNCHANGED <<outside_queue, q_hist>>

\* WaitForSingleObject(audio_thread, 3000); on WAIT_TIMEOUT TerminateThread.
cleanup_app_wait ==
    /\ apc.U = "cl_wait"
    /\ apc' = [U |-> "u_done", A |-> "a_done"]
    /\ msg_mutex' = IF msg_mutex = "A" THEN "free" ELSE msg_mutex
    /\ UNCHANGED <<message_buffer, buffer_not_empty, buffer_not_full, q_dev, q_flags,
                   msg, q_ui>>
    /\ UNCHANGED <<outside_queue, q_hist>>

\* WaitForSingleObject(mutex, INFINITE), on entry and after the event wait.
write_message_lock ==
    /\ apc.U = "wm_lock"
    /\ msg_mutex = "free"
    /\ msg_mutex' = "U"
    /\ apc' = [apc EXCEPT !.U = "wm_test"]
    /\ UNCHANGED <<message_buffer, buffer_not_empty, buffer_not_full, q_dev, q_flags,
                   msg, q_ui>>
    /\ UNCHANGED <<outside_queue, q_hist>>

\* while (count == size) { ReleaseMutex; ... }  store; SetEvent(buffer_not_empty);
\* ReleaseMutex; return TRUE
write_message_test ==
    /\ apc.U = "wm_test"
    /\ msg_mutex' = "free"
    /\ IF message_buffer.count = message_buffer.size
       THEN /\ apc' = [apc EXCEPT !.U = "wm_wait"]
            /\ UNCHANGED <<message_buffer, buffer_not_empty>>
            /\ UNCHANGED q_sent
       ELSE /\ message_buffer' = write_message_store(message_buffer, send_type)
            /\ q_sent' = Append(q_sent, send_type)
            /\ buffer_not_empty' = TRUE
            /\ apc' = [apc EXCEPT !.U = send_ret]
    /\ UNCHANGED <<buffer_not_full, q_dev, q_flags, msg, q_ui, q_received>>
    /\ UNCHANGED outside_queue

\* WaitForSingleObject(buffer_not_full, INFINITE) on the auto-reset event.
write_message_wait ==
    /\ apc.U = "wm_wait"
    /\ buffer_not_full
    /\ buffer_not_full' = FALSE
    /\ apc' = [apc EXCEPT !.U = "wm_lock"]
    /\ UNCHANGED <<message_buffer, msg_mutex, buffer_not_empty, q_dev, q_flags, msg,
                   q_ui>>
    /\ UNCHANGED <<outside_queue, q_hist>>

read_message_lock ==
    /\ apc.A = "rm_lock"
    /\ msg_mutex = "free"
    /\ msg_mutex' = "A"
    /\ apc' = [apc EXCEPT !.A = "rm_test"]
    /\ UNCHANGED <<message_buffer, buffer_not_empty, buffer_not_full, q_dev, q_flags,
                   msg, q_ui>>
    /\ UNCHANGED <<outside_queue, q_hist>>

\* while (count == 0) { ReleaseMutex; ... }  take; SetEvent(buffer_not_full);
\* ReleaseMutex; return TRUE
read_message_test ==
    /\ apc.A = "rm_test"
    /\ msg_mutex' = "free"
    /\ IF message_buffer.count = 0
       THEN /\ apc' = [apc EXCEPT !.A = "rm_wait"]
            /\ UNCHANGED <<message_buffer, buffer_not_full, msg, q_received>>
       ELSE /\ msg' = message_buffer.buffer[message_buffer.read_pos]
            /\ message_buffer' = read_message_take(message_buffer)
            /\ q_received' = Append(q_received, message_buffer.buffer[message_buffer.read_pos])
            /\ buffer_not_full' = TRUE
            /\ apc' = [apc EXCEPT !.A = "a_dispatch"]
    /\ UNCHANGED <<buffer_not_empty, q_dev, q_flags, q_ui, q_sent>>
    /\ UNCHANGED outside_queue

\* WaitForSingleObject(buffer_not_empty, INFINITE) on the auto-reset event.
read_message_wait ==
    /\ apc.A = "rm_wait"
    /\ buffer_not_empty
    /\ buffer_not_empty' = FALSE
    /\ apc' = [apc EXCEPT !.A = "rm_lock"]
    /\ UNCHANGED <<message_buffer, msg_mutex, buffer_not_full, q_dev, q_flags, msg,
                   q_ui>>
    /\ UNCHANGED <<outside_queue, q_hist>>

\* audio_thread_func up to its loop: load_wav_file, initialize_winmm,
\* initialize_wasapi, IAudioClient_GetBufferSize, each of which can fail.
InitOutcomes == {"load_failed", "WINMM", "WASAPI", "WASAPI_no_buffer_size", "none"}

msg_thread_init ==
    /\ apc.A = "a_init"
    /\ \E o \in InitOutcomes :
           /\ audio_api' = CASE o = "load_failed" -> audio_api
                             [] o = "WINMM" -> "WINMM"
                             [] o = "none" -> "NONE"
                             [] OTHER -> "WASAPI"
           /\ audio_initialized' = (o \in {"WINMM", "WASAPI", "WASAPI_no_buffer_size"})
           /\ apc' = [apc EXCEPT !.A = IF o \in {"WINMM", "WASAPI"}
                                       THEN "a_loop" ELSE "a_done"]
    /\ UNCHANGED <<q_sync, q_dev, thread_should_exit, msg, q_ui>>
    /\ UNCHANGED <<outside_queue, q_hist>>

\* Mutant of msg_thread_loop: neither running nor thread_should_exit is tested.
msg_thread_loop_forever ==
    /\ apc.A = "a_loop"
    /\ apc' = [apc EXCEPT !.A = "rm_lock"]
    /\ UNCHANGED <<q_sync, q_dev, q_flags, msg, q_ui>>
    /\ UNCHANGED <<outside_queue, q_hist>>

\* while (running) { if (thread_should_exit) { running = FALSE; break; } ...
\* running is FALSE exactly after MSG_EXIT was the last message read.
msg_thread_loop ==
    /\ apc.A = "a_loop"
    /\ apc' = [apc EXCEPT !.A = IF msg = "EXIT" \/ thread_should_exit
                                THEN "a_cleanup" ELSE "rm_lock"]
    /\ UNCHANGED <<q_sync, q_dev, q_flags, msg, q_ui>>
    /\ UNCHANGED <<outside_queue, q_hist>>

\* Mutant of start_audio_skips: a start on a playing stream is carried out.
start_audio_skips_uninit(initialized, playing) == ~initialized

\* if (!audio_initialized || audio_playing) return;
start_audio_skips(initialized, playing) == ~initialized \/ playing

\* Mutant of stop_audio_skips: a stop is never carried out.
stop_audio_skips_always(initialized, playing) == TRUE

\* if (!audio_initialized || !audio_playing) return;
stop_audio_skips(initialized, playing) == ~initialized \/ ~playing

\* The device calls of start_audio that can fail, "none" meaning success.
StartFailures(api) ==
    IF api = "WASAPI" THEN {"none", "IAudioClient_Start"}
    ELSE IF api = "WINMM" THEN {"none", "waveOutPrepareHeader", "waveOutWrite"}
    ELSE {"none"}

\* Mutant of start_audio_playing: the flag stays TRUE after a failure.
start_audio_playing_kept(f) == TRUE

\* audio_playing when start_audio returns: TRUE, reset to FALSE on a failure.
start_audio_playing(f) == f = "none"

\* case MSG_START_AUDIO: start_audio(app);
msg_thread_start ==
    /\ apc.A = "a_dispatch"
    /\ msg = "START"
    /\ IF start_audio_skips(audio_initialized, audio_playing)
       THEN UNCHANGED q_dev
       ELSE \E f \in StartFailures(audio_api) :
                /\ audio_playing' = start_audio_playing(f)
                /\ device' = IF f = "none" THEN "playing"
                             ELSE IF audio_api = "WINMM" THEN "stopped" ELSE device
                /\ wh_prepared' = IF audio_api = "WINMM"
                                  THEN f \in {"none", "waveOutWrite"}
                                  ELSE wh_prepared
                /\ start_attempts' = start_attempts + 1
                /\ start_failed' = IF f = "none" THEN start_failed ELSE start_failed + 1
    /\ apc' = [apc EXCEPT !.A = "a_feed"]
    /\ UNCHANGED <<q_sync, q_flags, msg, q_ui>>
    /\ UNCHANGED <<outside_queue, q_hist>>

\* case MSG_STOP_AUDIO: stop_audio(app); IAudioClient_Stop, waveOutReset and
\* waveOutUnprepareHeader can fail, which is only reported.
msg_thread_stop ==
    /\ apc.A = "a_dispatch"
    /\ msg = "STOP"
    /\ IF stop_audio_skips(audio_initialized, audio_playing)
       THEN UNCHANGED q_dev
       ELSE /\ audio_playing' = FALSE
            /\ \E ok \in BOOLEAN :
                   /\ device' = IF ok THEN "stopped" ELSE device
                   /\ wh_prepared' = IF audio_api = "WINMM" /\ ok THEN FALSE ELSE wh_prepared
            /\ UNCHANGED <<start_failed, start_attempts>>
    /\ apc' = [apc EXCEPT !.A = "a_feed"]
    /\ UNCHANGED <<q_sync, q_flags, msg, q_ui>>
    /\ UNCHANGED <<outside_queue, q_hist>>

\* case MSG_EXIT: running = FALSE;
msg_thread_exit ==
    /\ apc.A = "a_dispatch"
    /\ msg = "EXIT"
    /\ apc' = [apc EXCEPT !.A = "a_feed"]
    /\ UNCHANGED <<q_sync, q_dev, q_flags, msg, q_ui>>
    /\ UNCHANGED <<outside_queue, q_hist>>

\* if (audio_api == WASAPI && audio_playing) feed the device, leaving the loop
\* when GetCurrentPadding, GetBuffer or ReleaseBuffer fails; else Sleep(10).
msg_thread_feed ==
    /\ apc.A = "a_feed"
    /\ IF audio_api = "WASAPI" /\ audio_playing
       THEN \E ok \in BOOLEAN :
                apc' = [apc EXCEPT !.A = IF ok THEN "a_loop" ELSE "a_cleanup"]
       ELSE apc' = [apc EXCEPT !.A = "a_loop"]
    /\ UNCHANGED <<q_sync, q_dev, q_flags, msg, q_ui>>
    /\ UNCHANGED <<outside_queue, q_hist>>

\* Clean up audio before exiting: the device is stopped and closed.
msg_thread_cleanup ==
    /\ apc.A = "a_cleanup"
    /\ device' = "stopped"
    /\ wh_prepared' = IF audio_api = "WINMM" THEN FALSE ELSE wh_prepared
    /\ apc' = [apc EXCEPT !.A = "a_done"]
    /\ UNCHANGED <<q_sync, audio_playing, start_failed, start_attempts, q_flags, msg, q_ui>>
    /\ UNCHANGED <<outside_queue, q_hist>>

GtkNext ==
    \/ pressed_cb \/ released_cb \/ cleanup_app \/ cleanup_app_wait
    \/ write_message_lock \/ write_message_test \/ write_message_wait

MsgThreadNext ==
    \/ msg_thread_init \/ msg_thread_loop \/ read_message_lock \/ read_message_test
    \/ read_message_wait \/ msg_thread_start \/ msg_thread_stop \/ msg_thread_exit
    \/ msg_thread_feed \/ msg_thread_cleanup

QueueNext == GtkNext \/ MsgThreadNext


\* ------------------------------------------------------------------------
\* The video player: frame ring buffer
\* ------------------------------------------------------------------------
init_buffer ==
    [slots |-> [i \in 0..(FRAME_BUFFER_SIZE - 1) |-> 0],
     read_pos |-> 0, write_pos |-> 0, count |-> 0]

VideoInit ==
    /\ running = 1
    /\ frames = init_buffer
    /\ vmutex = "free"
    /\ vpc = [D |-> "d_loop", M |-> "m_idle"]
    /\ frame_no = 0
    /\ flush_left = MaxFlush
    /\ push_ret = "d_loop"
    /\ timer_on = TRUE
    /\ frame = 0
    /\ parkedAtShutdown = FALSE
    /\ pop_result = 0
    /\ pushed = <<>>
    /\ popped = <<>>

\* pthread_cond_signal wakes a thread that waits on the condition, if any.
Signal_frames_not_empty(p) == IF p.M = "pop_wait" THEN [p EXCEPT !.M = "pop_wake"] ELSE p

Signal_frames_not_full(p) == IF p.D = "push_wait" THEN [p EXCEPT !.D = "push_wake"] ELSE p

\* pthread_mutex_lock(&buffer.mutex);
buffer_push_lock ==
    /\ vpc.D = "push_lock"
    /\ vmutex = "free"
    /\ vmutex' = "D"
    /\ vpc' = [vpc EXCEPT !.D = "push_test"]
    /\ UNCHANGED <<running, frames, frame_no, flush_left, push_ret, timer_on, frame,
                   parkedAtShutdown>>
    /\ UNCHANGED <<outside_video, video_hist>>

\* Mutant of buffer_push_test: the wait predicate does not test running.
buffer_push_test_noflag ==
    /\ vpc.D = "push_test"
    /\ vpc' = [vpc EXCEPT !.D = IF frames.count >= FRAME_BUFFER_SIZE
                                THEN "push_park" ELSE "push_check"]
    /\ UNCHANGED <<running, frames, vmutex, frame_no, flush_left, push_ret, timer_on,
                   frame, parkedAtShutdown>>
    /\ UNCHANGED <<outside_video, video_hist>>

\* while (buffer.count >= BUFFER_SIZE && running)
buffer_push_test ==
    /\ vpc.D = "push_test"
    /\ vpc' = [vpc EXCEPT !.D = IF frames.count >= FRAME_BUFFER_SIZE /\ running = 1
                                THEN "push_park" ELSE "push_check"]
    /\ UNCHANGED <<running, frames, vmutex, frame_no, flush_left, push_ret, timer_on,
                   frame, parkedAtShutdown>>
    /\ UNCHANGED <<outside_video, video_hist>>

\* pthread_cond_wait(&buffer.not_full, &buffer.mutex): release the mutex and park.
buffer_push_park ==
    /\ vpc.D = "push_park"
    /\ vmutex' = "free"
    /\ vpc' = [vpc EXCEPT !.D = "push_wait"]
    /\ UNCHANGED <<running, frames, frame_no, flush_left, push_ret, timer_on, frame,
                   parkedAtShutdown>>
    /\ UNCHANGED <<outside_video, video_hist>>

\* pthread_cond_wait returns with the mutex held; back to the loop condition.
buffer_push_wake ==
    /\ vpc.D = "push_wake"
    /\ vmutex = "free"
    /\ vmutex' = "D"
    /\ vpc' = [vpc EXCEPT !.D = "push_test"]
    /\ UNCHANGED <<running, frames, frame_no, flush_left, push_ret, timer_on, frame,
                   parkedAtShutdown>>
    /\ UNCHANGED <<outside_video, video_hist>>

\* Mutant of buffer_push_check: write_pos advances without the modulo.
buffer_push_check_nowrap ==
    /\ vpc.D = "push_check"
    /\ IF running = 0
       THEN /\ vpc' = [vpc EXCEPT !.D = push_ret]
            /\ UNCHANGED <<frames, pushed>>
       ELSE /\ frames' = [frames EXCEPT !.slots[frames.write_pos] = frame_no,
                                        !.write_pos = frames.write_pos + 1,
                                        !.count = frames.count + 1]
            /\ pushed' = Append(pushed, frame_no)
            /\ vpc' = [Signal_frames_not_empty(vpc) EXCEPT !.D = push_ret]
    /\ vmutex' = "free"
    /\ UNCHANGED <<running, frame_no, flush_left, push_ret, timer_on, frame,
                   parkedAtShutdown, pop_result, popped>>
    /\ UNCHANGED outside_video

\* if (!running) { unlock; return; }  else store the frame, signal not_empty, unlock.
buffer_push_check ==
    /\ vpc.D = "push_check"
    /\ IF running = 0
       THEN /\ vpc' = [vpc EXCEPT !.D = push_ret]
            /\ UNCHANGED <<frames, pushed>>
       ELSE /\ frames' = [frames EXCEPT !.slots[frames.write_pos] = frame_no,
                                        !.write_pos = (frames.write_pos + 1) % FRAME_BUFFER_SIZE,
                                        !.count = frames.count + 1]
            /\ pushed' = Append(pushed, frame_no)
            /\ vpc' = [Signal_frames_not_empty(vpc) EXCEPT !.D = push_ret]
    /\ vmutex' = "free"
    /\ UNCHANGED <<running, frame_no, flush_left, push_ret, timer_on, frame,
                   parkedAtShutdown, pop_result, popped>>
    /\ UNCHANGED outside_video

\* pthread_mutex_lock(&buffer.mutex);
buffer_pop_lock ==
    /\ vpc.M = "pop_lock"
    /\ vmutex = "free"
    /\ vmutex' = "M"
    /\ vpc' = [vpc EXCEPT !.M = "pop_test"]
    /\ UNCHANGED <<running, frames, frame_no, flush_left, push_ret, timer_on, frame,
                   parkedAtShutdown>>
    /\ UNCHANGED <<outside_video, video_hist>>

\* Copy the oldest frame out, advance read_pos, signal not_full, unlock, return 1.
buffer_pop_take ==
    /\ frame' = frames.slots[frames.read_pos]
    /\ frames' = [frames EXCEPT !.read_pos = (frames.read_pos + 1) % FRAME_BUFFER_SIZE,
                                !.count = frames.count - 1]
    /\ vpc' = [Signal_frames_not_full(vpc) EXCEPT !.M = "m_idle"]
    /\ vmutex' = "free"
    /\ pop_result' = 1
    /\ popped' = Append(popped, frames.slots[frames.read_pos])

\* if (buffer.count <= 0) { if (!running) return 0; wait } else take
buffer_pop_test ==
    /\ vpc.M = "pop_test"
    /\ IF frames.count <= 0
       THEN IF running = 0
            THEN /\ vmutex' = "free"
                 /\ pop_result' = 0
                 /\ vpc' = [vpc EXCEPT !.M = "m_idle"]
                 /\ UNCHANGED <<frames, frame, popped>>
            ELSE /\ vpc' = [vpc EXCEPT !.M = "pop_park"]
                 /\ UNCHANGED <<frames, frame, vmutex, pop_result, popped>>
       ELSE buffer_pop_take
    /\ UNCHANGED <<running, frame_no, flush_left, push_ret, timer_on, parkedAtShutdown,
                   pushed>>
    /\ UNCHANGED outside_video

\* Mutant of buffer_pop_park: the wait keeps the mutex.
buffer_pop_park_holding ==
    /\ vpc.M = "pop_park"
    /\ vpc' = [vpc EXCEPT !.M = "pop_wait"]
    /\ UNCHANGED <<running, frames, vmutex, frame_no, flush_left, push_ret, timer_on,
                   frame, parkedAtShutdown>>
    /\ UNCHANGED <<outside_video, video_hist>>

\* pthread_cond_wait(&buffer.not_empty, &buffer.mutex): release the mutex and park.
buffer_pop_park ==
    /\ vpc.M = "pop_park"
    /\ vmutex' = "free"
    /\ vpc' = [vpc EXCEPT !.M = "pop_wait"]
    /\ UNCHANGED <<running, frames, frame_no, flush_left, push_ret, timer_on, frame,
                   parkedAtShutdown>>
    /\ UNCHANGED <<outside_video, video_hist>>

buffer_pop_wake ==
    /\ vpc.M = "pop_wake"
    /\ vmutex = "free"
    /\ vmutex' = "M"
    /\ vpc' = [vpc EXCEPT !.M = "pop_recheck"]
    /\ UNCHANGED <<running, frames, frame_no, flush_left, push_ret, timer_on, frame,
                   parkedAtShutdown>>
    /\ UNCHANGED <<outside_video, video_hist>>

\* Mutant of buffer_pop_recheck: no second test of the count after the wait.
buffer_pop_recheck_untested ==
    /\ vpc.M = "pop_recheck"
    /\ buffer_pop_take
    /\ UNCHANGED <<running, frame_no, flush_left, push_ret, timer_on, parkedAtShutdown,
                   pushed>>
    /\ UNCHANGED outside_video

\* After the single wait: if (buffer.count <= 0) { unlock; return 0; } else take
buffer_pop_recheck ==
    /\ vpc.M = "pop_recheck"
    /\ IF frames.count <= 0
       THEN /\ vmutex' = "free"
            /\ pop_result' = 0
            /\ vpc' = [vpc EXCEPT !.M = "m_idle"]
            /\ UNCHANGED <<frames, frame, popped>>
       ELSE buffer_pop_take
    /\ UNCHANGED <<running, frame_no, flush_left, push_ret, timer_on, parkedAtShutdown,
                   pushed>>
    /\ UNCHANGED outside_video

\* ------------------------------------------------------------------------
\* The video player: decode_thread
\* ------------------------------------------------------------------------
\* while (running && av_read_frame(...) >= 0) { ... buffer_push(...); }
decode_thread_loop ==
    /\ vpc.D = "d_loop"
    /\ IF running = 1 /\ frame_no < MaxFrames
       THEN /\ frame_no' = frame_no + 1
            /\ push_ret' = "d_loop"
            /\ vpc' = [vpc EXCEPT !.D = "push_lock"]
       ELSE /\ vpc' = [vpc EXCEPT !.D = "d_flush"]
            /\ UNCHANGED <<frame_no, push_ret>>
    /\ UNCHANGED <<running, frames, vmutex, flush_left, timer_on, frame, parkedAtShutdown>>
    /\ UNCHANGED <<outside_video, video_hist>>

\* avcodec_receive_frame fails: running = 0; break;
decode_thread_error ==
    /\ vpc.D = "d_loop"
    /\ running = 1
    /\ frame_no < MaxFrames
    /\ running' = 0
    /\ UNCHANGED <<frames, vmutex, vpc, frame_no, flush_left, push_ret, timer_on, frame,
                   parkedAtShutdown>>
    /\ UNCHANGED <<outside_video, video_hist>>

\* The flush loop: a delayed frame is pushed, or the decoder is drained.
decode_thread_flush ==
    /\ vpc.D = "d_flush"
    /\ \/ /\ flush_left > 0
          /\ flush_left' = flush_left - 1
          /\ frame_no' = frame_no + 1
          /\ push_ret' = "d_flush"
          /\ vpc' = [vpc EXCEPT !.D = "push_lock"]
       \/ /\ vpc' = [vpc EXCEPT !.D = "d_end"]
          /\ UNCHANGED <<flush_left, frame_no, push_ret>>
    /\ UNCHANGED <<running, frames, vmutex, timer_on, frame, parkedAtShutdown>>
    /\ UNCHANGED <<outside_video, video_hist>>

\* running = 0;
decode_thread_end ==
    /\ vpc.D = "d_end"
    /\ running' = 0
    /\ vpc' = [vpc EXCEPT !.D = "d_signal"]
    /\ UNCHANGED <<frames, vmutex, frame_no, flush_left, push_ret, timer_on, frame,
                   parkedAtShutdown>>
    /\ UNCHANGED <<outside_video, video_hist>>

\* pthread_cond_signal(&buffer.not_empty); ... return NULL;
decode_thread_signal ==
    /\ vpc.D = "d_signal"
    /\ vpc' = [Signal_frames_not_empty(vpc) EXCEPT !.D = "d_done"]
    /\ UNCHANGED <<running, frames, vmutex, frame_no, flush_left, push_ret, timer_on,
                   frame, parkedAtShutdown>>
    /\ UNCHANGED <<outside_video, video_hist>>

\* ------------------------------------------------------------------------
\* The video player: GTK main thread
\* ------------------------------------------------------------------------
\* The timer fires: if (!running) { free; return FALSE; }  buffer_pop(&frame) ...
display_frame ==
    /\ vpc.M = "m_idle"
    /\ timer_on
    /\ IF running = 0
       THEN /\ timer_on' = FALSE
            /\ frame' = 0
            /\ UNCHANGED vpc
       ELSE /\ vpc' = [vpc EXCEPT !.M = "pop_lock"]
            /\ UNCHANGED <<timer_on, frame>>
    /\ UNCHANGED <<running, frames, vmutex, frame_no, flush_left, push_ret,
                   parkedAtShutdown>>
    /\ UNCHANGED <<outside_video, video_hist>>

\* The window is closed: running = 0;
on_app_shutdown ==
    /\ vpc.M = "m_idle"
    /\ running' = 0
    /\ parkedAtShutdown' = (vpc.D = "push_wait")
    /\ vpc' = [vpc EXCEPT !.M = "sd_not_empty"]
    /\ UNCHANGED <<frames, vmutex, frame_no, flush_left, push_ret, timer_on, frame>>
    /\ UNCHANGED <<outside_video, video_hist>>

\* pthread_cond_signal(&buffer.not_empty);
on_app_shutdown_not_empty ==
    /\ vpc.M = "sd_not_empty"
    /\ vpc' = [Signal_frames_not_empty(vpc) EXCEPT !.M = "sd_not_full"]
    /\ UNCHANGED <<running, frames, vmutex, frame_no, flush_left, push_ret, timer_on,
                   frame, parkedAtShutdown>>
    /\ UNCHANGED <<outside_video, video_hist>>

\* pthread_cond_signal(&buffer.not_full);
on_app_shutdown_not_full ==
    /\ vpc.M = "sd_not_full"
    /\ vpc' = [Signal_frames_not_full(vpc) EXCEPT !.M = "m_join"]
    /\ UNCHANGED <<running, frames, vmutex, frame_no, flush_left, push_ret, timer_on,
                   frame, parkedAtShutdown>>
    /\ UNCHANGED <<outside_video, video_hist>>

\* pthread_join(decode_tid, NULL);
main_join ==
    /\ vpc.M = "m_join"
    /\ vpc.D = "d_done"
    /\ vpc' = [vpc EXCEPT !.M = "m_done"]
    /\ UNCHANGED <<running, frames, vmutex, frame_no, flush_left, push_ret, timer_on,
                   frame, parkedAtShutdown>>
    /\ UNCHANGED <<outside_video, video_hist>>

\* Spurious wake-ups of the two waits of the video player.
video_spurious_wakeup ==
    /\ \/ vpc.D = "push_wait" /\ vpc' = [vpc EXCEPT !.D = "push_wake"]
       \/ vpc.M = "pop_wait" /\ vpc' = [vpc EXCEPT !.M = "pop_wake"]
    /\ UNCHANGED <<running, frames, vmutex, frame_no, flush_left, push_ret, timer_on,
                   frame, parkedAtShutdown>>
    /\ UNCHANGED <<outside_video, video_hist>>

DecodeNext ==
    \/ decode_thread_loop \/ decode_thread_flush \/ decode_thread_end
    \/ decode_thread_signal \/ buffer_push_lock \/ buffer_push_test
    \/ buffer_push_park \/ buffer_push_wake \/ buffer_push_check

MainNext ==
    \/ display_frame \/ buffer_pop_lock \/ buffer_pop_test \/ buffer_pop_park
    \/ buffer_pop_wake \/ buffer_pop_recheck \/ on_app_shutdown
    \/ on_app_shutdown_not_empty \/ on_app_shutdown_not_full \/ main_join

\* ------------------------------------------------------------------------
\* The audio program
\* ------------------------------------------------------------------------
UiNext == play_audio \/ stop_audio \/ shutdown_request \/ shutdown_join

ProducerNext ==
    \/ audio_thread_loop \/ audio_thread_check \/ audio_thread_read
    \/ audio_thread_recv \/ audio_thread_after \/ audio_thread_eof
    \/ write_to_buffer_lock \/ write_to_buffer_test \/ write_to_buffer_body
    \/ write_to_buffer_wake \/ write_to_buffer_unlock

ConsumerNext ==
    \/ playback_thread_loop \/ playback_thread_check \/ playback_thread_deliver
    \/ read_from_buffer_lock \/ read_from_buffer_test \/ read_from_buffer_body
    \/ read_from_buffer_timeout \/ read_from_buffer_wake \/ read_from_buffer_unlock

\* Both revisions, with a short read request.
Init ==
    /\ timedWait \in BOOLEAN
    /\ r_size = ReadSmall
    /\ keep_running = 1
    /\ is_audio_playing = 0
    /\ ui_cmds = 0
    /\ AudioLocals
    /\ VideoInit
    /\ HistInit
    /\ ToneOff
    /\ FeedOff
    /\ QueueOff

Next == UiNext \/ ProducerNext \/ ConsumerNext \/ spurious_wakeup

Spec == Init /\ [][Next]_vars

\* Spec, with the shutdown handler run a second time.
ShutdownSpec == Init /\ [][Next \/ shutdown_again]_vars

\* The GTK4 revision with a read request long enough for size / 10 to be a
\* byte: one playback, started by the user's first button press, which ends
\* with the media.
TimeoutInit ==
    /\ timedWait = TRUE
    /\ r_size = ReadLarge
    /\ keep_running = 1
    /\ is_audio_playing = 1
    /\ ui_cmds = MaxCommands
    /\ AudioLocals
    /\ VideoInit
    /\ HistInit
    /\ ToneOff
    /\ FeedOff
    /\ QueueOff

\* The same with a request of OverrunRead bytes.
OverrunInit ==
    /\ timedWait = TRUE
    /\ r_size = OverrunRead
    /\ keep_running = 1
    /\ is_audio_playing = 1
    /\ ui_cmds = MaxCommands
    /\ AudioLocals
    /\ VideoInit
    /\ HistInit
    /\ ToneOff
    /\ FeedOff
    /\ QueueOff

TimeoutNext == ProducerNext \/ ConsumerNext \/ spurious_wakeup

TimeoutSpec == TimeoutInit /\ [][TimeoutNext]_vars

OverrunSpec == OverrunInit /\ [][TimeoutNext]_vars

\* The threads are scheduled by the OS, the timed wait does time out, and a
\* thread that keeps asking for the mutex gets it; nothing obliges the user
\* to issue a command or a wait to wake spuriously.
FairSpec ==
    /\ Init /\ [][Next]_vars
    /\ WF_vars(ProducerNext)
    /\ WF_vars(ConsumerNext)
    /\ SF_vars(write_to_buffer_lock \/ write_to_buffer_wake)
    /\ SF_vars(read_from_buffer_lock \/ read_from_buffer_wake)
    /\ WF_vars(shutdown_join)

\* ---------------------------------------------------------------------
\* Producer / consumer scenario on the byte buffer of A9.c: the producer
\* writes ScenarioWrites chunks of BUFFER_SIZE bytes, the consumer reads
\* ScenarioRead bytes at a time until it has received them all.
ScenarioWrites == 4

ScenarioRead == BUFFER_SIZE \div 4

ScenarioTotal == ScenarioWrites * BUFFER_SIZE

ScenarioInit ==
    /\ timedWait = FALSE
    /\ r_size = ScenarioRead
    /\ keep_running = 1
    /\ is_audio_playing = 1
    /\ ui_cmds = MaxCommands
    /\ buffer = init_circular_buffer
    /\ mutex = "free"
    /\ pc = [U |-> "off", P |-> "p_read", C |-> "c_loop"]
    /\ media_pos = 0
    /\ w_base = 0
    /\ w_size = 0
    /\ bytes_written = 0
    /\ bytes_read = 0
    /\ dest = [i \in 0..(DestLen - 1) |-> GARBAGE]
    /\ r_timedout = FALSE
    /\ fifo = <<>>
    /\ r_expect = <<>>
    /\ r_idle_call = FALSE
    /\ VideoInit
    /\ HistInit
    /\ ToneOff
    /\ FeedOff
    /\ QueueOff

\* The producer's loop: the next write_to_buffer(data, BUFFER_SIZE), or the end.
scenario_write ==
    /\ pc.P = "p_read"
    /\ IF media_pos < ScenarioTotal
       THEN /\ w_base' = media_pos
            /\ w_size' = BUFFER_SIZE
            /\ media_pos' = media_pos + BUFFER_SIZE
            /\ pc' = [pc EXCEPT !.P = "w_lock"]
       ELSE /\ pc' = [pc EXCEPT !.P = "p_done"]
            /\ UNCHANGED <<w_base, w_size, media_pos>>
    /\ UNCHANGED <<ui_cmds, config, keep_running, is_audio_playing, buffer, mutex,
                   bytes_written, r_locals, fifo>>
    /\ UNCHANGED <<outside_audio, hist_vars>>

\* The consumer's loop: the next read_from_buffer(buf, ScenarioRead), or the end.
scenario_read ==
    /\ pc.C = "c_loop"
    /\ pc' = [pc EXCEPT !.C = IF s_received < ScenarioTotal THEN "r_lock" ELSE "c_done"]
    /\ UNCHANGED <<ui_cmds, config, keep_running, is_audio_playing, buffer, mutex,
                   w_locals, r_locals, fifo>>
    /\ UNCHANGED <<outside_audio, hist_vars>>

\* The consumer accounts for the bytes the call returned.
scenario_deliver ==
    /\ pc.C = "c_deliver"
    /\ s_received' = s_received + bytes_read
    /\ bytes_read' = 0
    /\ dest' = [i \in 0..(DestLen - 1) |-> GARBAGE]
    /\ r_expect' = <<>>
    /\ r_idle_call' = FALSE
    /\ pc' = [pc EXCEPT !.C = "c_loop"]
    /\ UNCHANGED <<ui_cmds, config, keep_running, is_audio_playing, buffer, mutex,
                   w_locals, r_timedout, fifo>>
    /\ UNCHANGED <<outside_audio, stopped, joins, pcm_handle, play_phase>>

ScenarioProducerNext ==
    \/ scenario_write
    \/ write_to_buffer_lock \/ write_to_buffer_test \/ write_to_buffer_body
    \/ write_to_buffer_wake \/ write_to_buffer_unlock

ScenarioConsumerNext ==
    \/ scenario_read \/ scenario_deliver
    \/ read_from_buffer_lock \/ read_from_buffer_test \/ read_from_buffer_body
    \/ read_from_buffer_wake \/ read_from_buffer_unlock

ScenarioNext == ScenarioProducerNext \/ ScenarioConsumerNext \/ spurious_wakeup

\* Both threads are scheduled, and a thread that finds the mutex free
\* infinitely often acquires it.
ScenarioSpec ==
    /\ ScenarioInit /\ [][ScenarioNext]_vars
    /\ WF_vars(ScenarioProducerNext)
    /\ WF_vars(ScenarioConsumerNext)
    /\ SF_vars(write_to_buffer_lock \/ write_to_buffer_wake)
    /\ SF_vars(read_from_buffer_lock \/ read_from_buffer_wake)

\* ------------------------------------------------------------------------
\* The video program; the audio program stays in its initial, Idle state
\* ------------------------------------------------------------------------
VideoProgramInit ==
    /\ timedWait = TRUE
    /\ r_size = ReadSmall
    /\ keep_running = 1
    /\ is_audio_playing = 0
    /\ ui_cmds = 0
    /\ AudioLocals
    /\ VideoInit
    /\ HistInit
    /\ ToneOff
    /\ FeedOff
    /\ QueueOff

VideoNext == DecodeNext \/ decode_thread_error \/ MainNext \/ video_spurious_wakeup

VideoSpec == VideoProgramInit /\ [][VideoNext]_vars

\* The decode thread and the shutdown path of the main thread keep running,
\* and a thread that keeps asking for the mutex gets it; nothing obliges the
\* timer to fire, the window to be closed, a decoding error or a spurious
\* wake-up to happen.
FairVideoSpec ==
    /\ VideoProgramInit /\ [][VideoNext]_vars
    /\ WF_vars(DecodeNext)
    /\ SF_vars(buffer_push_lock \/ buffer_push_wake)
    /\ WF_vars(on_app_shutdown_not_empty \/ on_app_shutdown_not_full \/ main_join)

PopNext ==
    \/ buffer_pop_lock \/ buffer_pop_test \/ buffer_pop_park
    \/ buffer_pop_wake \/ buffer_pop_recheck

\* As FairVideoSpec, and the main thread keeps running once it is inside
\* buffer_pop.
FairPopSpec ==
    /\ VideoProgramInit /\ [][VideoNext]_vars
    /\ WF_vars(DecodeNext)
    /\ SF_vars(buffer_push_lock \/ buffer_push_wake)
    /\ WF_vars(PopNext)
    /\ SF_vars(buffer_pop_lock \/ buffer_pop_wake)
    /\ WF_vars(on_app_shutdown_not_empty \/ on_app_shutdown_not_full \/ main_join)

\* The video player on a file that decodes without an error.
DisplayNext == DecodeNext \/ MainNext \/ video_spurious_wakeup

\* As FairPopSpec on such a file, and the GTK timer keeps firing while it is
\* installed.
FairDisplaySpec ==
    /\ VideoProgramInit /\ [][DisplayNext]_vars
    /\ WF_vars(DecodeNext)
    /\ SF_vars(buffer_push_lock \/ buffer_push_wake)
    /\ WF_vars(PopNext)
    /\ SF_vars(buffer_pop_lock \/ buffer_pop_wake)
    /\ WF_vars(display_frame)
    /\ WF_vars(on_app_shutdown_not_empty \/ on_app_shutdown_not_full \/ main_join)

\* ------------------------------------------------------------------------
\* The drawing program; the audio player is not running
\* ------------------------------------------------------------------------
QueueProgramInit ==
    /\ timedWait = FALSE
    /\ r_size = ReadSmall
    /\ keep_running = 1
    /\ is_audio_playing = 0
    /\ ui_cmds = 0
    /\ AudioData
    /\ pc = [U |-> "off", P |-> "off", C |-> "off"]
    /\ VideoInit
    /\ HistInit
    /\ ToneOff
    /\ FeedOff
    /\ QueueInit

QueueSpec == QueueProgramInit /\ [][QueueNext]_vars

\* The audio thread is scheduled while it lives, the GTK thread goes on
\* inside write_message and cleanup_app, and a thread that keeps asking for
\* the mutex gets it; nothing obliges the user to press, release or close.
FairQueueSpec ==
    /\ QueueProgramInit /\ [][QueueNext]_vars
    /\ WF_vars(MsgThreadNext)
    /\ SF_vars(read_message_lock)
    /\ WF_vars(write_message_lock \/ write_message_test \/ write_message_wait
                   \/ cleanup_app_wait)
    /\ SF_vars(write_message_lock)

\* The drawing program while the 3 s wait of cleanup_app has not expired:
\* the audio thread is not terminated from outside.
ExitNext ==
    \/ pressed_cb \/ released_cb \/ cleanup_app
    \/ write_message_lock \/ write_message_test \/ write_message_wait
    \/ MsgThreadNext

FairExitSpec ==
    /\ QueueProgramInit /\ [][ExitNext]_vars
    /\ WF_vars(MsgThreadNext)
    /\ SF_vars(read_message_lock)
    /\ WF_vars(write_message_lock \/ write_message_test \/ write_message_wait)
    /\ SF_vars(write_message_lock)

\* The drawing program started with a message buffer made by
\* create_circular_buffer(size) for any int size: a negative size makes the
\* malloc request wrap to a size no allocator grants, malloc(0) may return
\* a pointer or NULL, and main ends when it gets NULL.
CapSizes == (0 - 1)..MSG_BUFFER_SIZE

CreateInit ==
    /\ timedWait = FALSE
    /\ r_size = ReadSmall
    /\ keep_running = 1
    /\ is_audio_playing = 0
    /\ ui_cmds = 0
    /\ AudioData
    /\ pc = [U |-> "off", P |-> "off", C |-> "off"]
    /\ VideoInit
    /\ HistInit
    /\ ToneOff
    /\ FeedOff
    /\ QueueFlags
    /\ \E size \in CapSizes :
           message_buffer \in IF size < 0 THEN {NULL}
                              ELSE {NULL, create_circular_buffer(size)}
    /\ apc = IF message_buffer = NULL THEN [U |-> "u_done", A |-> "off"]
             ELSE [U |-> "u_idle", A |-> "a_init"]

CreateSpec == CreateInit /\ [][QueueNext]_vars

\* Either program.
CommandInit == Init \/ QueueProgramInit

CommandNext == Next \/ QueueNext

CommandSpec == CommandInit /\ [][CommandNext]_vars

\* ------------------------------------------------------------------------
\* Any one of the programs; the others are not running
\* ------------------------------------------------------------------------
ProgramInit(prog) ==
    /\ timedWait \in IF prog = "audio" THEN BOOLEAN ELSE {FALSE}
    /\ r_size = ReadSmall
    /\ keep_running = 1
    /\ is_audio_playing = 0
    /\ ui_cmds = 0
    /\ AudioData
    /\ pc = IF prog = "audio" THEN [U |-> "u_run", P |-> "p_loop", C |-> "c_loop"]
            ELSE [U |-> "off", P |-> "off", C |-> "off"]
    /\ HistInit
    /\ ToneOff
    /\ FeedOff
    /\ running = 1
    /\ frames = init_buffer
    /\ vmutex = "free"
    /\ vpc = IF prog = "video" THEN [D |-> "d_loop", M |-> "m_idle"]
             ELSE [D |-> "off", M |-> "off"]
    /\ frame_no = 0
    /\ flush_left = MaxFlush
    /\ push_ret = "d_loop"
    /\ timer_on = TRUE
    /\ frame = 0
    /\ parkedAtShutdown = FALSE
    /\ pop_result = 0
    /\ pushed = <<>>
    /\ popped = <<>>
    /\ QueueLocals
    /\ apc = IF prog = "queue" THEN [U |-> "u_idle", A |-> "a_init"]
             ELSE [U |-> "off", A |-> "off"]

AllInit == \E prog \in {"audio", "video", "queue"} : ProgramInit(prog)

AllNext == Next \/ VideoNext \/ QueueNext

AllSpec == AllInit /\ [][AllNext]_vars

\* ------------------------------------------------------------------------
\* The tone generator (A8.c): main's menu loop and AudioThread
\* ------------------------------------------------------------------------
\* What the user can type at the menu: 0 quit, 1 sine, 2 noise, 3 frequency,
\* 4 amplitude, 5 anything else. Frequency and amplitude are not modelled.
Choices == 0..5

\* showMenu(); scanf_s("%d", &choice);
showMenu ==
    /\ tpc = "menu"
    /\ \E c \in Choices :
          /\ c \in {1, 2} => plays < MaxPlays
          /\ choice' = c
    /\ tpc' = "stop_any"
    /\ UNCHANGED <<isPlaying, hThread, hEvent, currentWaveform, thread, plays,
                   menu_running, join_ret>>
    /\ UNCHANGED outside_tone

\* if (isPlaying) { isPlaying = FALSE; if (hThread) { wait, close, NULL } }
main_stop_playing ==
    /\ tpc = "stop_any"
    /\ IF isPlaying
       THEN /\ isPlaying' = FALSE
            /\ tpc' = IF hThread # 0 THEN "join" ELSE "switch"
            /\ join_ret' = "switch"
       ELSE /\ tpc' = "switch"
            /\ UNCHANGED <<isPlaying, join_ret>>
    /\ UNCHANGED <<hThread, hEvent, currentWaveform, thread, plays, choice,
                   menu_running>>
    /\ UNCHANGED outside_tone

\* switch (choice): 0 quits; 1 and 2 set the waveform, isPlaying = TRUE and
\* hThread = CreateThread(...), which yields NULL when it fails.
main_switch ==
    /\ tpc = "switch"
    /\ IF choice = 0
       THEN /\ menu_running' = FALSE
            /\ UNCHANGED <<isPlaying, hThread, currentWaveform, thread, plays>>
       ELSE IF choice \in {1, 2}
       THEN /\ currentWaveform' = IF choice = 1 THEN "SINE_WAVE" ELSE "NOISE"
            /\ isPlaying' = TRUE
            /\ \E created \in BOOLEAN :
                  IF created
                  THEN /\ hThread' = plays + 1
                       /\ thread' = [thread EXCEPT ![plays + 1] = "t_init"]
                       /\ plays' = plays + 1
                  ELSE /\ hThread' = 0
                       /\ UNCHANGED <<thread, plays>>
            /\ UNCHANGED menu_running
       ELSE UNCHANGED <<isPlaying, hThread, currentWaveform, thread, plays,
                        menu_running>>
    /\ tpc' = "after"
    /\ UNCHANGED <<hEvent, choice, join_ret>>
    /\ UNCHANGED outside_tone

\* if (isPlaying) { printf; _getch(); ... }  and the test of while (running)
main_after_switch ==
    /\ tpc = "after"
    /\ tpc' = IF isPlaying THEN "key"
              ELSE IF menu_running THEN "menu" ELSE "cleanup"
    /\ UNCHANGED <<isPlaying, hThread, hEvent, currentWaveform, thread, plays,
                   choice, menu_running, join_ret>>
    /\ UNCHANGED outside_tone

\* Mutant of main_key_press: the thread is not waited for.
main_key_press_nowait ==
    /\ tpc = "key"
    /\ isPlaying' = FALSE
    /\ hThread' = 0
    /\ tpc' = IF menu_running THEN "menu" ELSE "cleanup"
    /\ UNCHANGED <<hEvent, currentWaveform, thread, plays, choice, menu_running,
                   join_ret>>
    /\ UNCHANGED outside_tone

\* _getch() returns; isPlaying = FALSE; if (hThread) { wait, close, NULL }
main_key_press ==
    /\ tpc = "key"
    /\ isPlaying' = FALSE
    /\ tpc' = IF hThread # 0 THEN "join"
              ELSE IF menu_running THEN "menu" ELSE "cleanup"
    /\ join_ret' = IF menu_running THEN "menu" ELSE "cleanup"
    /\ UNCHANGED <<hThread, hEvent, currentWaveform, thread, plays, choice,
                   menu_running>>
    /\ UNCHANGED outside_tone

\* WaitForSingleObject(hThread, INFINITE) returns when the thread has ended;
\* CloseHandle(hThread); hThread = NULL;
main_wait_thread ==
    /\ tpc = "join"
    /\ thread[hThread] = "exited"
    /\ hThread' = 0
    /\ tpc' = join_ret
    /\ UNCHANGED <<isPlaying, hEvent, currentWaveform, thread, plays, choice,
                   menu_running, join_ret>>
    /\ UNCHANGED outside_tone

\* CleanupAudio: if (isPlaying) { isPlaying = FALSE; if (hThread) { wait ... } }
CleanupAudio ==
    /\ tpc = "cleanup"
    /\ IF isPlaying
       THEN /\ isPlaying' = FALSE
            /\ tpc' = IF hThread # 0 THEN "join" ELSE "release"
            /\ join_ret' = "release"
       ELSE /\ tpc' = "release"
            /\ UNCHANGED <<isPlaying, join_ret>>
    /\ UNCHANGED <<hThread, hEvent, currentWaveform, thread, plays, choice,
                   menu_running>>
    /\ UNCHANGED outside_tone

\* CleanupAudio: if (hEvent) { CloseHandle(hEvent); hEvent = NULL; } and the
\* release of the render client and the audio client; main returns.
CleanupAudio_release ==
    /\ tpc = "release"
    /\ hEvent' = "NULL"
    /\ tpc' = "done"
    /\ UNCHANGED <<isPlaying, hThread, currentWaveform, thread, plays, choice,
                   menu_running, join_ret>>
    /\ UNCHANGED outside_tone

\* AudioThread: IAudioClient_GetBufferSize and IAudioClient_Start; a failure
\* of either is return 1.
AudioThread_init(id) ==
    /\ thread[id] = "t_init"
    /\ \E started \in BOOLEAN :
          thread' = [thread EXCEPT ![id] = IF started THEN "t_loop" ELSE "exited"]
    /\ UNCHANGED <<isPlaying, hThread, hEvent, currentWaveform, plays, choice,
                   menu_running, join_ret, tpc>>
    /\ UNCHANGED outside_tone

\* while (isPlaying)
AudioThread_loop(id) ==
    /\ thread[id] = "t_loop"
    /\ thread' = [thread EXCEPT ![id] = IF isPlaying THEN "t_wait" ELSE "t_stop"]
    /\ UNCHANGED <<isPlaying, hThread, hEvent, currentWaveform, plays, choice,
                   menu_running, join_ret, tpc>>
    /\ UNCHANGED outside_tone

\* WaitForSingleObject(hEvent, INFINITE) on the auto-reset event
AudioThread_wait(id) ==
    /\ thread[id] = "t_wait"
    /\ hEvent = "set"
    /\ hEvent' = "unset"
    /\ thread' = [thread EXCEPT ![id] = "t_fill"]
    /\ UNCHANGED <<isPlaying, hThread, currentWaveform, plays, choice,
                   menu_running, join_ret, tpc>>
    /\ UNCHANGED outside_tone

\* GetCurrentPadding, GetBuffer, the samples, ReleaseBuffer; a failure of a
\* call is a break.
AudioThread_fill(id) ==
    /\ thread[id] = "t_fill"
    /\ \E ok \in BOOLEAN :
          thread' = [thread EXCEPT ![id] = IF ok THEN "t_loop" ELSE "t_stop"]
    /\ UNCHANGED <<isPlaying, hThread, hEvent, currentWaveform, plays, choice,
                   menu_running, join_ret, tpc>>
    /\ UNCHANGED outside_tone

\* IAudioClient_Stop; IAudioClient_Reset; return 0;
AudioThread_stop(id) ==
    /\ thread[id] = "t_stop"
    /\ thread' = [thread EXCEPT ![id] = "exited"]
    /\ UNCHANGED <<isPlaying, hThread, hEvent, currentWaveform, plays, choice,
                   menu_running, join_ret, tpc>>
    /\ UNCHANGED outside_tone

\* The audio engine sets the event handed to IAudioClient_SetEventHandle
\* whenever the started client has room for samples.
engine_event ==
    /\ hEvent = "unset"
    /\ \E id \in 1..MaxPlays : thread[id] \in {"t_loop", "t_wait", "t_fill"}
    /\ hEvent' = "set"
    /\ UNCHANGED <<isPlaying, hThread, currentWaveform, thread, plays, choice,
                   menu_running, join_ret, tpc>>
    /\ UNCHANGED outside_tone

AudioThread(id) ==
    \/ AudioThread_init(id) \/ AudioThread_loop(id) \/ AudioThread_wait(id)
    \/ AudioThread_fill(id) \/ AudioThread_stop(id)

ToneMainNext ==
    \/ showMenu \/ main_stop_playing \/ main_switch \/ main_after_switch
    \/ main_key_press \/ main_wait_thread \/ CleanupAudio \/ CleanupAudio_release

ToneNext == ToneMainNext \/ (\E id \in 1..MaxPlays : AudioThread(id)) \/ engine_event

\* main after InitializeAudioClient has succeeded; the other programs are
\* not running.
ToneInit ==
    /\ timedWait = FALSE
    /\ r_size = ReadSmall
    /\ keep_running = 1
    /\ is_audio_playing = 0
    /\ ui_cmds = 0
    /\ AudioData
    /\ pc = [U |-> "off", P |-> "off", C |-> "off"]
    /\ VideoInit
    /\ HistInit
    /\ QueueOff
    /\ ToneLocals
    /\ tpc = "menu"
    /\ FeedOff

ToneSpec == ToneInit /\ [][ToneNext]_vars

\* ------------------------------------------------------------------------
\* The drawing program: the WASAPI feed of audio_thread_func
\* ------------------------------------------------------------------------
\* The value an expression has when stored in a UINT32
U32(x) == (x + UINT_SPAN) % UINT_SPAN

\* UINT32 frames_available = (app->audio_data_size - current_position) / bytes_per_frame;
frames_available(size, pos, bpf) == U32(size - pos) \div bpf

\* The ranges <<offset, length>> of audio_data the memcpy calls of one pass read
feed_copies(size, pos, bpf, ftw) ==
    LET fa == frames_available(size, pos, bpf)
    IN  IF fa < ftw
        THEN (IF fa > 0 THEN {<<pos, fa * bpf>>} ELSE {})
             \cup {<<0, (ftw - fa) * bpf>>}
        ELSE {<<pos, ftw * bpf>>}

\* current_position after the pass
feed_position(size, pos, bpf, ftw) ==
    LET fa == frames_available(size, pos, bpf)
    IN  IF fa < ftw THEN U32((ftw - fa) * bpf) ELSE U32(pos + ftw * bpf)

\* One pass of the feed with frames_to_write = buffer_frames - padding_frames > 0
wasapi_feed ==
    /\ fpc = "feed"
    /\ \E ftw \in 1..MaxFramesToWrite :
          LET copies == feed_copies(audio_data_size, current_position, bytes_per_frame, ftw)
          IN  /\ frames_to_write' = ftw
              /\ feed_read_end' = CHOOSE e \in {c[1] + c[2] : c \in copies} :
                                     \A c \in copies : c[1] + c[2] <= e
              /\ feed_frames' = IF bytes_per_frame > 0
                                THEN LET Bytes[S \in SUBSET copies] ==
                                            IF S = {} THEN 0
                                            ELSE LET c == CHOOSE c \in S : TRUE
                                                 IN  c[2] + Bytes[S \ {c}]
                                     IN  Bytes[copies] \div bytes_per_frame
                                ELSE 0
              /\ current_position' = feed_position(audio_data_size, current_position,
                                                   bytes_per_frame, ftw)
    /\ UNCHANGED <<audio_data_size, bytes_per_frame, fpc>>
    /\ UNCHANGED outside_feed

\* audio_thread_func enters its loop with current_position = 0, for a WAV file
\* of any size and block alignment; the other programs are not running.
FeedInit ==
    /\ timedWait = FALSE
    /\ r_size = ReadSmall
    /\ keep_running = 1
    /\ is_audio_playing = 0
    /\ ui_cmds = 0
    /\ AudioData
    /\ pc = [U |-> "off", P |-> "off", C |-> "off"]
    /\ VideoInit
    /\ HistInit
    /\ QueueOff
    /\ ToneLocals
    /\ tpc = "off"
    /\ audio_data_size \in 1..MaxAudioData
    /\ bytes_per_frame \in 1..MaxBlockAlign
    /\ current_position = 0
    /\ frames_to_write = 0
    /\ feed_read_end = 0
    /\ feed_frames = 0
    /\ fpc = "feed"

FeedSpec == FeedInit /\ [][wasapi_feed]_vars

\* ------------------------------------------------------------------------
\* Type invariant
\* ------------------------------------------------------------------------
TypeOK ==
    /\ keep_running \in {0, 1}
    /\ is_audio_playing \in {0, 1}
    /\ mutex \in {"free", "P", "C"}
    /\ bytes_written \in 0..w_size
    /\ Len(fifo) = buffer.size

\* ------------------------------------------------------------------------
\* Properties of the byte ring buffer
\* ------------------------------------------------------------------------
\* The live bytes of the buffer, oldest first.
BufferContents ==
    [i \in 1..buffer.size |-> buffer.data[(buffer.read_pos + i - 1) % BUFFER_SIZE]]

\* What the running read call has put into the destination so far.
Delivered == [i \in 1..Len(r_expect) |-> dest[i - 1]]

WriteCallPcs == {"w_lock", "w_test", "w_body", "w_wait", "w_wake"}

ReadLoopPcs == {"r_lock", "r_test", "r_body", "r_wait", "r_wake"}

\* C1: the fill count of the byte ring buffer stays within 0 .. BUFFER_SIZE
\* in every state, under every interleaving of the threads.
CapacityInvariant == buffer.size >= 0 /\ buffer.size <= BUFFER_SIZE

\* C1 witness: the buffer is full after reads and writes have both moved.
CapacityWitness == buffer.size = BUFFER_SIZE /\ buffer.read_pos > 0

\* C2: the bytes held by the ring buffer are the bytes written and not yet
\* read, in the order written, and every read call delivers them to its
\* destination in that order (with silence where the call filled silence).
FifoCorrect == BufferContents = fifo /\ Delivered = r_expect

\* C2 witness: a read call has delivered a full request of media bytes whose
\* run in the backing array wrapped around its end.
FifoWitness ==
    /\ pc.C = "r_unlock"
    /\ bytes_read = r_size
    /\ \A i \in 0..(r_size - 1) : dest[i] > 0
    /\ buffer.read_pos > 0
    /\ buffer.read_pos < r_size

\* C3: once shutdown has cleared keep_running, the decoder thread leaves
\* write_to_buffer and ends, so that the pthread_join of the shutdown path
\* completes.
ShutdownUnblocksWaiters == (keep_running = 0) ~> (pc.U = "u_done")

\* C4: a decode thread that is parked in buffer_push on the full frame buffer
\* when on_app_shutdown clears running is woken by the signals that follow,
\* leaves buffer_push and ends, and main's pthread_join returns.
ShutdownWakesParkedDecoder ==
    parkedAtShutdown ~> (vpc.D = "d_done" /\ vpc.M = "m_done")

\* C4 witness: the decode thread was parked at shutdown and the join has
\* returned.
ShutdownWakesWitness == parkedAtShutdown /\ vpc.D = "d_done" /\ vpc.M = "m_done"

\* C5: a decoder thread parked in write_to_buffer when the stream is Idle
\* leaves the call without a later play_audio or shutdown.
StopUnblocksWaiters ==
    (is_audio_playing = 0 /\ pc.P = "w_wait")
        ~> (pc.P \notin WriteCallPcs \/ is_audio_playing = 1 \/ keep_running = 0)

\* C6: a read call that began with the stream Idle and the buffer empty (and
\* no play_audio since) does not park in a wait, and ends with the whole
\* request filled with zero bytes.
IdleReadReturnsSilence ==
    r_idle_call =>
        \/ pc.C \in {"r_test", "r_body"}
        \/ /\ pc.C \in {"r_unlock", "c_deliver"}
           /\ bytes_read = r_size
           /\ \A i \in 0..(r_size - 1) : dest[i] = 0

\* C7: a read call that ends with the buffer empty and keep_running cleared
\* returns the full request, every destination byte being data or zero.
ShutdownReadFillsSilence ==
    (pc.C = "r_unlock" /\ keep_running = 0 /\ buffer.size = 0) =>
        /\ bytes_read = r_size
        /\ \A i \in 0..(r_size - 1) : dest[i] # GARBAGE

BlockingWrite ==
    [][ (/\ pc.P \in WriteCallPcs
         /\ buffer.size = BUFFER_SIZE
         /\ keep_running = 1
         /\ bytes_written < w_size) =>
            /\ pc'.P \in WriteCallPcs
            /\ bytes_written' = bytes_written
            /\ buffer'.write_pos = buffer.write_pos
            /\ buffer'.data = buffer.data ]_vars

\* C9 witness: a writer that was parked on the full buffer has been woken by
\* a read that freed space.
BlockingWriteWitness ==
    /\ pc.P = "w_wake"
    /\ buffer.size < BUFFER_SIZE
    /\ bytes_written < w_size
    /\ keep_running = 1

\* C10: while the buffer is empty, the stream Playing and keep_running set, a
\* read call with bytes left to read stays inside the call, and bytes_read
\* moves only when a timeout has elapsed.
BlockingRead ==
    [][ (/\ pc.C \in ReadLoopPcs
         /\ buffer.size = 0
         /\ is_audio_playing = 1
         /\ keep_running = 1
         /\ bytes_read < r_size) =>
            /\ pc'.C \in ReadLoopPcs
            /\ (bytes_read' = bytes_read \/ (pc.C = "r_wake" /\ r_timedout)) ]_vars

\* C10 witness: a reader that was parked on the empty buffer while Playing
\* has been woken by a write.
BlockingReadWitness ==
    /\ pc.C = "r_wake"
    /\ ~r_timedout
    /\ buffer.size > 0
    /\ is_audio_playing = 1
    /\ keep_running = 1
    /\ bytes_read < r_size

\* C12: a write_to_buffer call that ends while keep_running is still 1 has
\* written its whole request, whatever the request size.
WriteReturnsAll ==
    (pc.P = "w_unlock" /\ keep_running = 1) => bytes_written = w_size

\* C12 witness: a request larger than the buffer has been written in full.
WriteReturnsAllWitness ==
    /\ pc.P = "w_unlock"
    /\ keep_running = 1
    /\ w_size > BUFFER_SIZE
    /\ bytes_written = w_size

\* read_pos and write_pos are indices of the backing array.
PositionsInRange ==
    /\ buffer.read_pos \in 0..(BUFFER_SIZE - 1)
    /\ buffer.write_pos \in 0..(BUFFER_SIZE - 1)

\* A write step moves only write_pos, a read step only read_pos.
PositionsMoveOneSide ==
    /\ buffer'.write_pos # buffer.write_pos =>
           (pc.P = "w_body" /\ buffer'.read_pos = buffer.read_pos)
    /\ buffer'.read_pos # buffer.read_pos =>
           (pc.C = "r_body" /\ buffer'.write_pos = buffer.write_pos)

\* C13 as stated: size == (write_pos - read_pos) mod BUFFER_SIZE in every
\* reachable state, positions in range, each side moving its own position.
PositionInvariantLiteral ==
    /\ [](/\ PositionsInRange
          /\ buffer.size = (buffer.write_pos - buffer.read_pos) % BUFFER_SIZE)
    /\ [][PositionsMoveOneSide]_vars

\* C13 amended: size is congruent to write_pos - read_pos modulo BUFFER_SIZE
\* and lies in 0 .. BUFFER_SIZE (it is BUFFER_SIZE, not 0, when the buffer
\* is full); read_pos == write_pos exactly when the buffer is empty or full.
PositionInvariant ==
    /\ [](/\ PositionsInRange
          /\ buffer.size \in 0..BUFFER_SIZE
          /\ buffer.size % BUFFER_SIZE
                 = (buffer.write_pos - buffer.read_pos) % BUFFER_SIZE
          /\ (buffer.read_pos = buffer.write_pos) <=> (buffer.size \in {0, BUFFER_SIZE}))
    /\ [][PositionsMoveOneSide]_vars

\* C13 witness: the live region wraps, write_pos being behind read_pos.
PositionWitness ==
    /\ buffer.write_pos < buffer.read_pos
    /\ buffer.size = BUFFER_SIZE + buffer.write_pos - buffer.read_pos

\* The segments of one step start at pos, stay inside the backing array, are
\* split at its end and add up to n bytes.
SegmentsSplit(segs, pos, n) ==
    /\ Len(segs) \in {1, 2}
    /\ segs[1].pos = pos
    /\ \A k \in 1..Len(segs) :
           segs[k].pos >= 0 /\ segs[k].len > 0 /\ segs[k].pos + segs[k].len <= BUFFER_SIZE
    /\ Len(segs) = 1 => segs[1].len = n
    /\ Len(segs) = 2 =>
           /\ segs[1].len = BUFFER_SIZE - pos
           /\ segs[2].pos = 0
           /\ segs[1].len + segs[2].len = n

\* C14: every memcpy of a write or read step stays inside the backing array;
\* a run that wraps is done as two segments, BUFFER_SIZE - pos bytes and the
\* rest from index 0, which add up to the bytes transferred.
SplitCopies ==
    /\ (pc.P = "w_body" /\ buffer.size < BUFFER_SIZE) =>
           LET n == to_write(w_size, bytes_written, BUFFER_SIZE - buffer.size)
           IN  SegmentsSplit(write_segments(buffer, n), buffer.write_pos, n)
    /\ (pc.C = "r_body" /\ buffer.size > 0) =>
           LET n == to_read(r_size, bytes_read, buffer.size)
           IN  SegmentsSplit(read_segments(buffer, n), buffer.read_pos, n)

\* C14 witness: a write step whose run wraps is about to copy two segments.
SplitCopiesWitness ==
    /\ pc.P = "w_body"
    /\ buffer.size < BUFFER_SIZE
    /\ to_write(w_size, bytes_written, BUFFER_SIZE - buffer.size)
           > BUFFER_SIZE - buffer.write_pos

\* C16: is_audio_playing changes only in a step of play_audio or stop_audio.
FlagWrittenByControllerOnly ==
    [][is_audio_playing' # is_audio_playing => ui_cmds' # ui_cmds]_vars

\* C17: between a stop_audio and the next play_audio no write step adds a
\* byte to the ring buffer and the playback thread hands no buffered byte to
\* the output device.
NoDataWhileIdle ==
    [][ (stopped /\ stopped') =>
            /\ Len(fifo') <= Len(fifo)
            /\ ~(/\ pc.C = "c_deliver"
                 /\ pc'.C # "c_deliver"
                 /\ \E i \in 0..(bytes_read - 1) : dest[i] > 0) ]_vars

\* C15: in the producer / consumer scenario every read returns the next
\* ScenarioRead bytes of the stream in order, and under every interleaving
\* both threads finish with exactly ScenarioTotal bytes received.
ScenarioDeliversAll ==
    /\ [](/\ s_received <= ScenarioTotal
          /\ pc.C = "c_deliver" =>
                 /\ bytes_read = ScenarioRead
                 /\ \A i \in 0..(bytes_read - 1) : dest[i] = Media(s_received + i))
    /\ <>[](/\ pc.P = "p_done"
            /\ pc.C = "c_done"
            /\ s_received = ScenarioTotal
            /\ buffer.size = 0)

\* C15 witness: both threads have finished and all bytes were received.
ScenarioWitness ==
    /\ pc.P = "p_done"
    /\ pc.C = "c_done"
    /\ s_received = ScenarioTotal
    /\ media_pos = ScenarioTotal

\* C18: a buffer_pop call made by display_frame returns, also when the
\* decode thread ends while the call is in progress.
PopReturns ==
    (vpc.M \in {"pop_lock", "pop_test", "pop_park", "pop_wait", "pop_wake", "pop_recheck"})
        ~> (vpc.M = "m_idle")

\* C11: a start command on a playing stream and a stop command on an idle
\* stream change neither the play state nor the device state nor the
\* contents of the buffers, in the drawing program (start_audio / stop_audio)
\* and in the player (play_audio / stop_audio).
RedundantCommandsAreNoOps ==
    [][ /\ (apc.A = "a_dispatch" /\ apc'.A = "a_feed" /\ msg = "START" /\ audio_playing)
            => UNCHANGED <<audio_playing, device, wh_prepared, start_attempts,
                           message_buffer>>
        /\ (apc.A = "a_dispatch" /\ apc'.A = "a_feed" /\ msg = "STOP" /\ ~audio_playing)
            => UNCHANGED <<audio_playing, device, wh_prepared, start_attempts,
                           message_buffer>>
        /\ (ui_cmds' # ui_cmds /\ keep_running' = keep_running /\ ~stopped'
                /\ is_audio_playing = 1)
            => UNCHANGED <<is_audio_playing, buffer, fifo>>
        /\ (ui_cmds' # ui_cmds /\ stopped' /\ is_audio_playing = 0)
            => UNCHANGED <<is_audio_playing, buffer, fifo>> ]_vars

\* C11 witness: two MSG_START_AUDIO were sent and both were handled, with
\* a single start call made to the device, which is playing.
RedundantStartWitness ==
    /\ sends = 2
    /\ message_buffer.count = 0
    /\ message_buffer.buffer[0] = "START"
    /\ message_buffer.buffer[1] = "START"
    /\ msg = "START"
    /\ apc.A = "a_feed"
    /\ audio_playing
    /\ device = "playing"
    /\ start_attempts = 1

\* C19: a send_message call returns to its caller.
SendReturns ==
    (apc.U \in {"wm_lock", "wm_test", "wm_wait"}) ~> (apc.U \in {"u_idle", "cl_wait"})

\* C20: start_audio calls the device at most once, a start on an idle,
\* initialised stream does call it, audio_playing is FALSE on return when
\* the device rejected the start, and TRUE with the device playing otherwise.
StartFailureLeavesIdle ==
    [][ (apc.A = "a_dispatch" /\ apc'.A = "a_feed" /\ msg = "START") =>
            /\ start_attempts' \in {start_attempts, start_attempts + 1}
            /\ (audio_initialized /\ ~audio_playing) => start_attempts' = start_attempts + 1
            /\ start_failed' > start_failed => (~audio_playing' /\ audio_initialized')
            /\ start_failed' = start_failed /\ start_attempts' > start_attempts
                   => (audio_playing' /\ device' = "playing") ]_vars

\* C20 witness: after a rejected start a later start has succeeded.
StartFailureWitness ==
    /\ start_failed > 0
    /\ start_attempts > start_failed
    /\ audio_playing
    /\ device = "playing"
    /\ msg = "START"
    /\ apc.A = "a_feed"

LockDiscipline ==
    /\ [](/\ (pc.P \in {"w_test", "w_body", "w_unlock"}) <=> (mutex = "P")
          /\ (pc.C \in {"r_test", "r_body", "r_unlock"}) <=> (mutex = "C")
          /\ (vpc.D \in {"push_test", "push_park", "push_check"}) <=> (vmutex = "D")
          /\ (vpc.M \in {"pop_test", "pop_park", "pop_recheck"}) <=> (vmutex = "M")
          /\ (apc.U = "wm_test") <=> (msg_mutex = "U")
          /\ (apc.A = "rm_test") <=> (msg_mutex = "A")
          /\ pc.P \in {"w_wait", "w_wake"} => mutex # "P"
          /\ pc.C \in {"r_wait", "r_wake"} => mutex # "C"
          /\ vpc.D \in {"push_wait", "push_wake"} => vmutex # "D"
          /\ vpc.M \in {"pop_wait", "pop_wake"} => vmutex # "M"
          /\ apc.U = "wm_wait" => msg_mutex # "U"
          /\ apc.A = "rm_wait" => msg_mutex # "A")
    /\ [][ /\ buffer' # buffer =>
                  \/ mutex = "P" /\ pc.P = "w_body" /\ pc'.P # pc.P
                  \/ mutex = "C" /\ pc.C = "r_body" /\ pc'.C # pc.C
           /\ frames' # frames =>
                  \/ vmutex = "D" /\ vpc.D = "push_check" /\ vpc'.D # vpc.D
                  \/ vmutex = "M" /\ vpc.M \in {"pop_test", "pop_recheck"}
                         /\ vpc'.M # vpc.M
           /\ message_buffer' # message_buffer =>
                  \/ msg_mutex = "U" /\ apc.U = "wm_test" /\ apc'.U # apc.U
                  \/ msg_mutex = "A" /\ apc.A = "rm_test" /\ apc'.A # apc.A ]_vars

\* C22 witness: the writer is blocked on the full byte buffer, without the
\* mutex, while the reader holds the mutex and is about to take bytes.
LockDisciplineWitness ==
    /\ pc.P = "w_wait"
    /\ buffer.size = BUFFER_SIZE
    /\ mutex = "C"
    /\ pc.C = "r_body"

\* C23: no thread is joined twice, also when the shutdown handler is run a
\* second time.
ShutdownIdempotent ==
    joins <= 1

\* C26: a play_audio on an Idle stream that is followed by no stop_audio and
\* no shutdown leads to media bytes handed to the output device.
PlayLeadsToData ==
    (play_phase \in {"start", "restart"} /\ keep_running = 1)
        ~> (play_phase \notin {"start", "restart"} \/ keep_running = 0)

\* C29: the first media byte handed to the output device after a stop_audio
\* followed by a play_audio is the first byte of the media.
RestartFromBeginning ==
    [][ (play_phase = "restart" /\ play_phase' = "flowed") =>
            \E i \in 0..(bytes_read - 1) :
                /\ dest[i] = Media(0)
                /\ \A j \in 0..(i - 1) : dest[j] <= 0 ]_vars

\* C27: when the decoder has reached the end of the media while the stream
\* is Playing, then, unless a stop_audio or the shutdown comes first,
\* is_audio_playing becomes 0 and the decoder is positioned at the start.
EndOfMediaStops ==
    (/\ pc.P = "p_after"
     /\ media_pos = MEDIA_LEN
     /\ is_audio_playing = 1
     /\ keep_running = 1)
        ~> ((is_audio_playing = 0 /\ media_pos = 0) \/ stopped \/ keep_running = 0)

EndOfMediaWitness ==
    /\ ui_cmds = 1
    /\ ~stopped
    /\ play_phase = "flowed"
    /\ pc.P = "p_loop"
    /\ is_audio_playing = 0
    /\ media_pos = 0

\* C28: read_from_buffer never counts more than the size asked for and
\* never writes to data[size] or beyond.
ReadWithinRequest ==
    /\ bytes_read <= r_size
    /\ \A i \in r_size..(DestLen - 1) : dest[i] = GARBAGE

\* C30: while the window is not closed, a frame stored in the frame buffer
\* is eventually popped for display, also when the decode thread has ended.
StoredFramesDisplayed ==
    (frames.count > 0)
        ~> (\/ frames.count = 0
            \/ vpc.M \in {"sd_not_empty", "sd_not_full", "m_join", "m_done"})

\* C25: a write that adds data wakes the reader blocked on the empty buffer
\* and a read that frees space wakes the writer blocked on the full buffer;
\* no thread stays parked while the condition it waits for holds (byte
\* buffer: condition variables; message queue: auto-reset events).
WakeUpNotLost ==
    /\ [](/\ pc.C = "r_wait" => buffer.size = 0
          /\ pc.P = "w_wait" => buffer.size = BUFFER_SIZE
          /\ (apc.A = "rm_wait" /\ message_buffer.count > 0) => buffer_not_empty
          /\ (apc.U = "wm_wait" /\ message_buffer.count < message_buffer.size)
                => buffer_not_full)
    /\ [][ /\ (pc.C = "r_wait" /\ buffer'.size > buffer.size) => pc'.C = "r_wake"
           /\ (pc.P = "w_wait" /\ buffer'.size < buffer.size) => pc'.P = "w_wake"
           /\ message_buffer'.count > message_buffer.count => buffer_not_empty'
           /\ message_buffer'.count < message_buffer.count => buffer_not_full' ]_vars

WakeUpWitness ==
    /\ pc.C = "r_wake"
    /\ ~r_timedout
    /\ buffer.size > 0
    /\ pc.P = "w_test"

\* C24: at most one AudioThread is alive; a thread is created only when
\* isPlaying is FALSE, hThread is NULL and every earlier thread has ended;
\* whenever the menu is shown isPlaying is FALSE and hThread is NULL.
SingleAudioThread ==
    /\ [](/\ Cardinality({id \in 1..MaxPlays : thread[id] \notin {"none", "exited"}}) <= 1
          /\ tpc = "menu" => (~isPlaying /\ hThread = 0))
    /\ [][ plays' > plays =>
              /\ ~isPlaying
              /\ hThread = 0
              /\ \A id \in 1..MaxPlays : thread[id] \in {"none", "exited"} ]_vars

SingleAudioThreadWitness ==
    /\ plays = 2
    /\ thread[1] = "exited"
    /\ thread[2] = "t_fill"
    /\ isPlaying
    /\ hThread = 2

\* C31: buffer_pop returns 1 exactly when it removed the oldest frame (count
\* one less, read_pos one further modulo the capacity); when it returns 0 the
\* buffer held no frame and read_pos, write_pos and count are unchanged.
PopResult ==
    [][ (vpc.M \in {"pop_test", "pop_recheck"} /\ vpc'.M = "m_idle") =>
           /\ pop_result' \in {0, 1}
           /\ pop_result' = 1 <=>
                 /\ frames.count > 0
                 /\ frames'.count = frames.count - 1
                 /\ frames'.read_pos = (frames.read_pos + 1) % FRAME_BUFFER_SIZE
                 /\ frames'.write_pos = frames.write_pos
                 /\ frame' = pushed[Len(popped) + 1]
           /\ pop_result' = 0 => (frames.count = 0 /\ frames' = frames) ]_vars

PopResultWitness ==
    /\ vpc.M = "m_idle"
    /\ pop_result = 0
    /\ Len(popped) > 0
    /\ running = 1

\* C33: the frame buffer keeps 0 <= count <= capacity, both positions inside
\* the array and count = (write_pos - read_pos) mod capacity (capacity when
\* full); buffer_pop hands out the frames in the order buffer_push stored
\* them, each at most once, and never a slot that was not written.
FrameBufferInvariant ==
    /\ frames.count \in 0..FRAME_BUFFER_SIZE
    /\ frames.read_pos \in 0..(FRAME_BUFFER_SIZE - 1)
    /\ frames.write_pos \in 0..(FRAME_BUFFER_SIZE - 1)
    /\ IF frames.count = FRAME_BUFFER_SIZE
       THEN frames.write_pos = frames.read_pos
       ELSE frames.count =
               (frames.write_pos + FRAME_BUFFER_SIZE - frames.read_pos) % FRAME_BUFFER_SIZE
    /\ Len(popped) <= Len(pushed)
    /\ \A i \in 1..Len(popped) : popped[i] = pushed[i] /\ popped[i] > 0
    /\ \A i, j \in 1..Len(pushed) : i < j => pushed[i] # pushed[j]
    /\ frames.count = Len(pushed) - Len(popped)

FrameBufferWitness ==
    /\ Len(popped) >= 2
    /\ frames.count = FRAME_BUFFER_SIZE
    /\ frames.write_pos = 0

\* C32: while audio plays on WASAPI and neither a stop nor the exit has been
\* sent, the audio thread comes to its feed step again after every pass of
\* its loop.
FeedContinues ==
    (audio_api = "WASAPI" /\ audio_playing /\ apc.A = "a_loop")
        ~> (\/ apc.A = "a_feed"
            \/ ~audio_playing
            \/ thread_should_exit
            \/ apc.A \in {"a_cleanup", "a_done"})

\* C34: the message queue keeps 0 <= count <= size, and read_message returns
\* the messages in the order write_message stored them, none skipped and
\* none returned twice.
MessageOrder ==
    /\ message_buffer.count \in 0..message_buffer.size
    /\ message_buffer.read_pos \in 0..(message_buffer.size - 1)
    /\ message_buffer.write_pos \in 0..(message_buffer.size - 1)
    /\ Len(q_received) <= Len(q_sent)
    /\ q_received = SubSeq(q_sent, 1, Len(q_received))
    /\ message_buffer.count = Len(q_sent) - Len(q_received)
    /\ \A k \in 1..message_buffer.count :
          message_buffer.buffer[(message_buffer.read_pos + k - 1) % message_buffer.size]
             = q_sent[Len(q_received) + k]

MessageOrderWitness ==
    /\ Len(q_received) = MSG_BUFFER_SIZE + 1
    /\ q_received[1] # q_received[2]
    /\ message_buffer.count = 1

\* The last MSG_START_AUDIO / MSG_STOP_AUDIO among the messages sent, "none"
\* when there is none.
LastCommandSent ==
    LET cmds == SelectSeq(q_sent, LAMBDA t : t \in {"START", "STOP"})
    IN  IF cmds = <<>> THEN "none" ELSE cmds[Len(cmds)]

\* C35: once the audio thread has processed every message sent, and no
\* device call of a start has failed, audio_playing is TRUE exactly when the
\* last start / stop message sent was a start; after a release that follows
\* a press audio_playing is FALSE.
CommandsInOrder ==
    (/\ Len(q_received) = Len(q_sent)
     /\ apc.A # "a_dispatch"
     /\ apc.U # "u_done")
        => /\ start_failed = 0 => (audio_playing <=> LastCommandSent = "START")
           /\ LastCommandSent = "STOP" => ~audio_playing

CommandsInOrderWitness ==
    /\ q_sent = <<"START", "STOP", "START">>
    /\ Len(q_received) = 3
    /\ apc.A = "rm_wait"
    /\ audio_playing
    /\ start_attempts = 2

\* C36: once cleanup_app has set thread_should_exit and is sending MSG_EXIT,
\* an audio thread that is inside its processing loop leaves the loop.
ThreadLeavesLoop ==
    (/\ thread_should_exit
     /\ apc.A \in {"a_loop", "rm_lock", "rm_test", "rm_wait", "a_dispatch", "a_feed"})
        ~> (apc.A \in {"a_cleanup", "a_done"})

ThreadLeavesLoopWitness ==
    /\ thread_should_exit
    /\ apc.A = "a_cleanup"
    /\ msg = "EXIT"
    /\ q_received = <<"EXIT">>

\* C37: every pass of the WASAPI feed reads only inside audio_data, leaves
\* current_position <= audio_data_size and copies exactly frames_to_write
\* frames to the device buffer.
FeedWithinData ==
    /\ feed_read_end <= audio_data_size
    /\ current_position <= audio_data_size
    /\ feed_frames = frames_to_write

====
